---- MODULE Spec2Model ----
(***************************************************************************)
(* A model of the SECS-II codec of Zhuagenborn/SECS-II-Serialization:      *)
(* Message::ToBytes / BuildMsgBytes (byte/write.cpp), BuildMsgFromBytes /  *)
(* LoadMsgBytes (byte/read.cpp) and the length helpers (byte/length.h).    *)
(*                                                                         *)
(* Representation.  A std::vector / std::span / std::deque / std::string   *)
(* is modelled as a run-length sequence: a sequence of runs [v, n], n >= 1,*)
(* in which neighbouring runs hold different v.  It denotes the sequence   *)
(* that repeats each v n times, so a leaf of 0x1000000 bytes is one run.   *)
(* Every container operation below (size, push_back, subspan, front) is    *)
(* defined on the denoted sequence and keeps the runs normalised, so that  *)
(* equality of run-length sequences is equality of the sequences.          *)
(*                                                                         *)
(* A Message::Value is [type, elems, kids]: type is the format code,       *)
(* elems the elements of an item (kids empty), kids the children of a list *)
(* (elems empty).  Elements are integers: a signed type holds its signed   *)
(* value, an unsigned type its value, Boolean 0/1, ASCII and Binary the    *)
(* octet, F4/F8 the IEEE-754 bit pattern.                                  *)
(***************************************************************************)
EXTENDS Integers, Sequences, FiniteSets, TLC

VARIABLES val, buf, init_buf, built, wire, bytes, origin, loaded, reserved, visited,
          hdr, query, op

vars == <<val, buf, init_buf, built, wire, bytes, origin, loaded, reserved, visited,
          hdr, query, op>>

(***************************************************************************)
(* Run-length sequences (std::vector, std::span).                          *)
(***************************************************************************)
Fill(v, n) == IF n = 0 THEN <<>> ELSE <<[v |-> v, n |-> n]>>

\* the number of elements of runs lo..hi, summed by halves
RECURSIVE SizeOfRuns(_, _, _)
SizeOfRuns(s, lo, hi) ==
    IF lo > hi THEN 0
    ELSE IF lo = hi THEN s[lo].n
    ELSE SizeOfRuns(s, lo, (lo + hi) \div 2) + SizeOfRuns(s, (lo + hi) \div 2 + 1, hi)

Size(s) == SizeOfRuns(s, 1, Len(s))

\* s.size() >= n; n runs hold n elements or more
HasAtLeast(s, n) == Len(s) >= n \/ Size(s) >= n

Cat(s, t) ==
    IF s = <<>> THEN t
    ELSE IF t = <<>> THEN s
    ELSE IF s[Len(s)].v = t[1].v
         THEN SubSeq(s, 1, Len(s) - 1)
              \o <<[v |-> t[1].v, n |-> s[Len(s)].n + t[1].n]>>
              \o Tail(t)
         ELSE s \o t

push_back(s, v) == Cat(s, Fill(v, 1))

RECURSIVE FromSeq(_)
FromSeq(q) == IF q = <<>> THEN <<>> ELSE Cat(Fill(q[1], 1), FromSeq(Tail(q)))

\* span.subspan(off): the elements from offset off on (off <= size).  A cut
\* within the first runs is made at once, a cut further on is looked for by
\* halves
RECURSIVE subspan(_, _)
subspan(s, off) ==
    IF off = 0 \/ s = <<>> THEN s
    ELSE IF s[1].n > off THEN <<[v |-> s[1].v, n |-> s[1].n - off]>> \o Tail(s)
    ELSE IF Len(s) <= 4 THEN subspan(Tail(s), off - s[1].n)
    ELSE IF SizeOfRuns(s, 1, 4) > off
    THEN subspan(SubSeq(s, 1, 4), off) \o SubSeq(s, 5, Len(s))
    ELSE LET h == Len(s) \div 2
             sl == SizeOfRuns(s, 1, h)
         IN IF sl <= off THEN subspan(SubSeq(s, h + 1, Len(s)), off - sl)
            ELSE subspan(SubSeq(s, 1, h), off) \o SubSeq(s, h + 1, Len(s))

\* span.subspan(0, cnt): the first cnt elements (cnt <= size)
RECURSIVE first(_, _)
first(s, cnt) ==
    IF cnt = 0 \/ s = <<>> THEN <<>>
    ELSE IF s[1].n >= cnt THEN <<[v |-> s[1].v, n |-> cnt]>>
    ELSE IF Len(s) <= 4 THEN <<s[1]>> \o first(Tail(s), cnt - s[1].n)
    ELSE IF SizeOfRuns(s, 1, 4) >= cnt THEN first(SubSeq(s, 1, 4), cnt)
    ELSE LET h == Len(s) \div 2
             sl == SizeOfRuns(s, 1, h)
         IN IF sl >= cnt THEN first(SubSeq(s, 1, h), cnt)
            ELSE SubSeq(s, 1, h) \o first(SubSeq(s, h + 1, Len(s)), cnt - sl)

\* vector.resize(n) for n <= size: truncation
resize(s, n) == first(s, n)

front(s) == s[1].v

\* s[i], i counted from 0 (i < size)
at(s, i) == front(subspan(s, i))

\* std::ranges::transform into a container: s holds the runs of the input with
\* the function applied to their elements; equal neighbours become one run
RECURSIVE Transform(_)
Transform(s) ==
    IF s = <<>> THEN <<>>
    ELSE Cat(Fill(s[1].v, s[1].n), Transform(Tail(s)))

\* the denoted sequence of a short run-length sequence
RECURSIVE Expand(_)
Expand(s) ==
    IF s = <<>> THEN <<>>
    ELSE IF s[1].n = 1 THEN <<s[1].v>> \o Expand(Tail(s))
    ELSE <<s[1].v>> \o Expand(<<[v |-> s[1].v, n |-> s[1].n - 1]>> \o Tail(s))

(***************************************************************************)
(* secs2.h: Type, the format codes.                                        *)
(***************************************************************************)
List    == 0
Binary  == 8
Boolean == 9
ASCII   == 16
I8      == 24
I1      == 25
I2      == 26
I4      == 28
F8      == 32
F4      == 36
U8      == 40
U1      == 41
U2      == 42
U4      == 44
Unknown == 63

ItemTypes == {Binary, Boolean, ASCII, I1, I2, I4, I8, U1, U2, U4, U8, F4, F8}
\* mutant: the loader of F8 is missing
TypesWithoutF8 == (ItemTypes \ {F8}) \cup {List}
Types == ItemTypes \cup {List}
SignedTypes == {I1, I2, I4, I8}

\* sizeof(std::ranges::range_value_t<T>)
SizeOf(type) ==
    CASE type \in {Binary, Boolean, ASCII, I1, U1} -> 1
      [] type \in {I2, U2} -> 2
      [] type \in {I4, U4, F4} -> 4
      [] type \in {I8, U8, F8} -> 8

\* mutant: F8 has no format code of its own (format_code<F8> is the primary
\* template)
GetTypeWithoutF8(v) == IF v.type = F8 THEN Unknown ELSE v.type

\* GetType (traits.h)
GetType(v) == v.type

MkItem(type, elems) == [type |-> type, elems |-> elems, kids |-> <<>>]
MkList(kids) == [type |-> List, elems |-> <<>>, kids |-> kids]

(***************************************************************************)
(* secs2.h: GetItemValue, Message::GetValue<T>.                            *)
(***************************************************************************)
\* std::holds_alternative<List>(elem), std::holds_alternative<Item>(elem)
HoldsList(elem) == elem.type = List
HoldsItem(elem) == elem.type # List

\* an empty std::optional<T>
NoRawValue == [has_value |-> FALSE, value |-> [type |-> Unknown, elems |-> <<>>, kids |-> <<>>]]

\* mutant: an item is returned whatever its type
GetItemValueAnyItem(T, elem) ==
    IF T = List
    THEN IF HoldsList(elem) THEN [has_value |-> TRUE, value |-> elem] ELSE NoRawValue
    ELSE IF HoldsItem(elem) THEN [has_value |-> TRUE, value |-> elem] ELSE NoRawValue

GetItemValue(T, elem) ==
    IF T = List
    THEN IF HoldsList(elem) THEN [has_value |-> TRUE, value |-> elem] ELSE NoRawValue
    ELSE IF HoldsItem(elem)
         THEN IF elem.type = T THEN [has_value |-> TRUE, value |-> elem] ELSE NoRawValue
         ELSE NoRawValue

(***************************************************************************)
(* std::optional and bit_manip helpers.                                    *)
(***************************************************************************)
nullopt == [has_value |-> FALSE, value |-> 0]
make_optional(x) == [has_value |-> TRUE, value |-> x]

\* bit::GetBits(val, begin, count)
GetBits(x, begin, count) == (x \div (2 ^ begin)) % (2 ^ count)

\* bit::SetBits(val, bits, begin, count)
SetBits(x, bits, begin, count) ==
    x - GetBits(x, begin, count) * (2 ^ begin) + (bits % (2 ^ count)) * (2 ^ begin)

\* mutant: the bytes are written least significant first
RECURSIVE WriteBytesLittleEndian(_, _)
WriteBytesLittleEndian(x, count) ==
    IF count = 0 THEN <<>> ELSE <<x % 256>> \o WriteBytesLittleEndian(x \div 256, count - 1)

\* bit::WriteBytes(x, span of count bytes, std::endian::big): the low count
\* bytes of x (two's complement for x < 0), most significant first
RECURSIVE WriteBytes(_, _)
WriteBytes(x, count) ==
    IF count = 0 THEN <<>> ELSE Append(WriteBytes(x \div 256, count - 1), x % 256)

\* bit::ReadBytes(span, unsigned, std::endian::big) on a plain byte sequence
RECURSIVE ReadBytes(_)
ReadBytes(q) ==
    IF q = <<>> THEN 0 ELSE ReadBytes(SubSeq(q, 1, Len(q) - 1)) * 256 + q[Len(q)]

\* bit::ReadBytes(span, signed, std::endian::big): two's complement
RECURSIVE ReadSignedBytes(_)
ReadSignedBytes(q) ==
    IF Len(q) = 1 THEN (IF q[1] >= 128 THEN q[1] - 256 ELSE q[1])
    ELSE ReadSignedBytes(SubSeq(q, 1, Len(q) - 1)) * 256 + q[Len(q)]

(***************************************************************************)
(* byte/length.h, byte/length.cpp                                          *)
(***************************************************************************)
CHAR_BIT == 8
len_bit_begin == 0
len_bit_count == 2
type_bit_begin == len_bit_begin + len_bit_count
type_bit_count == CHAR_BIT - type_bit_begin
max_len_byte_count == 3
\* bit::GetBits(uint32 max, 0, max_len_byte_count * CHAR_BIT): the low 24 bits, all set
max_len == 2 ^ (max_len_byte_count * CHAR_BIT) - 1
uint8_max == 255
uint16_max == 65535

\* mutant: the length of an item is its element count
CalcLengthItemCount(item) == Size(item.elems)

CalcLengthItem(item) == Size(item.elems) * SizeOf(item.type)
CalcLengthList(list) == Size(list.kids)
CalcLength(v) == IF v.type = List THEN CalcLengthList(v) ELSE CalcLengthItem(v)

\* mutant: a header without length bytes is taken
IsNotExceedLengthByteCountRangeZero(count) == count <= max_len_byte_count

IsNotExceedLengthByteCountRange(count) == 0 < count /\ count <= max_len_byte_count
IsExceedLengthByteCountRange(count) == ~IsNotExceedLengthByteCountRange(count)

\* mutant: the limit itself is refused
IsExceedMaxLengthOffByOne(size) == size >= max_len

IsExceedMaxLength(size) == size > max_len
IsNotExceedMaxLength(size) == ~IsExceedMaxLength(size)

\* cond ? std::make_optional<std::size_t>(len) : len  has the type
\* std::optional<std::size_t>: the third operand is converted to an optional
\* that holds len
FilterExceededLength(len) ==
    IF IsNotExceedMaxLength(len) THEN make_optional(len) ELSE make_optional(len)

\* mutant: the limits 0xFF and 0xFFFF take one length byte more
CalcLengthByteCountStrict(len) ==
    IF len < uint8_max THEN make_optional(1)
    ELSE IF len < uint16_max THEN make_optional(2)
    ELSE IF IsNotExceedMaxLength(len) THEN make_optional(2 + 1)
    ELSE nullopt

CalcLengthByteCount(len) ==
    IF len <= uint8_max THEN make_optional(1)
    ELSE IF len <= uint16_max THEN make_optional(2)
    ELSE IF IsNotExceedMaxLength(len) THEN make_optional(2 + 1)
    ELSE nullopt

value_or(o, d) == IF o.has_value THEN o.value ELSE d

\* struct LengthBytes: the constructor, for len <= max_len
LengthBytes(len) ==
    LET valid_count == value_or(CalcLengthByteCount(len), 0)
        written == WriteBytes(len, max_len_byte_count)
        copied == [i \in 1..max_len_byte_count |->
                     IF i <= valid_count
                     THEN written[max_len_byte_count - valid_count + i]
                     ELSE written[i]]
    IN [valid_count |-> valid_count,
        reserved |-> IF valid_count < max_len_byte_count THEN copied ELSE written]

(***************************************************************************)
(* byte/write.h, byte/write.cpp                                            *)
(***************************************************************************)
BuildFormatByte(type, len) ==
    LET len_byte_count == value_or(CalcLengthByteCount(len), 0)
    IN SetBits(SetBits(0, len_byte_count, len_bit_begin, len_bit_count),
               type, type_bit_begin, type_bit_count)

RECURSIVE PushBytes(_, _, _, _)
PushBytes(b, q, i, count) ==
    IF i = count THEN b ELSE PushBytes(push_back(b, q[i + 1]), q, i + 1, count)

\* appends the header to b; the count returned is Size(result) - Size(b)
BuildHeaderBytes(type, len, b) ==
    LET format_byte == BuildFormatByte(type, len)
        len_bytes == LengthBytes(len)
    IN PushBytes(push_back(b, format_byte), len_bytes.reserved, 0, len_bytes.valid_count)

\* static_cast<std::byte>(bool)
BoolToByte(x) == IF x # 0 THEN 1 ELSE 0

CopyBoolValBytes(vals, b) ==
    Cat(b, Transform([i \in 1..Len(vals) |->
                         [v |-> BoolToByte(vals[i].v), n |-> vals[i].n]]))

\* std::as_bytes of a one-byte element: its octet
AsByte(x) == x % 256

\* the run-length sequence s repeated n times, built by doubling
RECURSIVE Repeat(_, _)
Repeat(s, n) ==
    IF n = 0 THEN <<>>
    ELSE LET half == Repeat(s, n \div 2)
         IN Cat(Cat(half, half), IF n % 2 = 1 THEN s ELSE <<>>)

\* the bytes q appended n times to b
AppendTimes(b, q, n) == Cat(b, Repeat(FromSeq(q), n))

\* mutant: the elements are copied as they lie in memory, least significant
\* byte first
RECURSIVE CopyWideValBytesNative(_, _, _)
CopyWideValBytesNative(elems, width, b) ==
    IF elems = <<>> THEN b
    ELSE CopyWideValBytesNative(Tail(elems), width,
                                AppendTimes(b, WriteBytesLittleEndian(elems[1].v, width),
                                            elems[1].n))

\* std::ranges::for_each(raw, WriteBytes big-endian, copy to buf)
RECURSIVE CopyWideValBytes(_, _, _)
CopyWideValBytes(elems, width, b) ==
    IF elems = <<>> THEN b
    ELSE CopyWideValBytes(Tail(elems), width,
                          AppendTimes(b, WriteBytes(elems[1].v, width), elems[1].n))

CopyValBytes(item, b) ==
    IF item.type = Boolean THEN CopyBoolValBytes(item.elems, b)
    ELSE IF SizeOf(item.type) <= 1 THEN Cat(b, Transform([i \in 1..Len(item.elems) |->
                               [v |-> AsByte(item.elems[i].v), n |-> item.elems[i].n]]))
    ELSE CopyWideValBytes(item.elems, SizeOf(item.type), b)

\* mutant: the size of the buffer is returned, not the number of bytes appended
BuildMsgBytesItemSize(item, b) ==
    LET len == CalcLength(item) IN
    IF IsNotExceedMaxLength(len)
    THEN LET out == CopyValBytes(item, BuildHeaderBytes(GetType(item), len, b))
         IN [ret |-> make_optional(Size(out)), buf |-> out]
    ELSE [ret |-> nullopt, buf |-> b]

BuildMsgBytesItem(item, b) ==
    LET len == CalcLength(item) IN
    IF IsNotExceedMaxLength(len)
    THEN LET out == CopyValBytes(item, BuildHeaderBytes(GetType(item), len, b))
         IN [ret |-> make_optional(Size(out) - Size(b)), buf |-> out]
    ELSE [ret |-> nullopt, buf |-> b]

RECURSIVE BuildMsgBytes(_, _)
RECURSIVE BuildListLoop(_, _, _, _)

\* the for loop of BuildMsgBytes(const List&) over the children lo .. hi-1, run
\* by halves; st is [ok, buf]: whether every child so far was written, and the
\* buffer.  Once a child has failed the loop is left.
BuildListLoop(list, lo, hi, st) ==
    IF ~st.ok \/ lo = hi THEN st
    ELSE IF hi - lo = 1
    THEN LET r == BuildMsgBytes(at(list.kids, lo), st.buf)
         IN [ok |-> r.ret.has_value, buf |-> r.buf]
    ELSE LET half == BuildListLoop(list, lo, (lo + hi) \div 2, st)
         IN BuildListLoop(list, (lo + hi) \div 2, hi, half)

\* mutant: a failed child leaves the bytes written so far in the buffer
BuildMsgBytesListNoRollback(list, b) ==
    LET len == CalcLength(list) IN
    IF IsNotExceedMaxLength(len)
    THEN LET init_buf_size == Size(b)
             st == BuildListLoop(list, 0, len,
                                 [ok |-> TRUE, buf |-> BuildHeaderBytes(List, len, b)])
         IN IF st.ok
            THEN [ret |-> make_optional(Size(st.buf) - init_buf_size), buf |-> st.buf]
            ELSE [ret |-> nullopt, buf |-> st.buf]
    ELSE [ret |-> nullopt, buf |-> b]

BuildMsgBytesList(list, b) ==
    LET len == CalcLength(list) IN
    IF IsNotExceedMaxLength(len)
    THEN LET init_buf_size == Size(b)
             st == BuildListLoop(list, 0, len,
                                 [ok |-> TRUE, buf |-> BuildHeaderBytes(List, len, b)])
         IN IF st.ok
            THEN [ret |-> make_optional(Size(st.buf) - init_buf_size), buf |-> st.buf]
            ELSE [ret |-> nullopt, buf |-> resize(st.buf, init_buf_size)]
    ELSE [ret |-> nullopt, buf |-> b]

BuildMsgBytes(v, b) ==
    IF v.type = List THEN BuildMsgBytesList(v, b) ELSE BuildMsgBytesItem(v, b)

\* Message::ToBytes
ToBytes(v) ==
    LET r == BuildMsgBytes(v, <<>>)
    IN IF r.ret.has_value THEN make_optional(r.buf) ELSE [has_value |-> FALSE, value |-> <<>>]

(***************************************************************************)
(* byte/read.h, byte/read.cpp                                              *)
(*                                                                         *)
(* An Error is [code, what]: the std::error_code and the message, the      *)
(* message kept as its format string and the arguments formatted into it.  *)
(* A std::expected<Loaded, Error> is [has_value, first, second, error].    *)
(***************************************************************************)
message_size == "std::errc::message_size"
argument_out_of_domain == "std::errc::argument_out_of_domain"

MakeIncompleteDataError ==
    [code |-> message_size, what |-> [text |-> "Incomplete data", args |-> <<>>]]

MakeUnknownTypeError(type) ==
    [code |-> argument_out_of_domain,
     what |-> [text |-> "Unknown format type: 0x{:02X}", args |-> <<type>>]]

\* mutant: an unaligned length is reported as a domain error
MakeUnalignedLengthErrorDomain(len, type, align) ==
    [code |-> argument_out_of_domain,
     what |-> [text |-> "Length {} is not aligned to {} size {}",
               args |-> <<len, type, align>>]]

MakeUnalignedLengthError(len, type, align) ==
    [code |-> message_size,
     what |-> [text |-> "Length {} is not aligned to {} size {}",
               args |-> <<len, type, align>>]]

\* mutant: an invalid number of length bytes is reported as a size error
MakeInvalidLengthByteCountErrorSize(count) ==
    [code |-> message_size,
     what |-> [text |-> "Invalid number of length bytes: {}", args |-> <<count>>]]

MakeInvalidLengthByteCountError(count) ==
    [code |-> argument_out_of_domain,
     what |-> [text |-> "Invalid number of length bytes: {}", args |-> <<count>>]]

NoValue == [type |-> Unknown, elems |-> <<>>, kids |-> <<>>]
NoError == [code |-> "", what |-> [text |-> "", args |-> <<>>]]

expected(v, size) == [has_value |-> TRUE, first |-> v, second |-> size, error |-> NoError]
unexpected(e) == [has_value |-> FALSE, first |-> NoValue, second |-> 0, error |-> e]

ReadFormatByte(byte) ==
    [type |-> GetBits(byte, type_bit_begin, type_bit_count),
     len_byte_count |-> GetBits(byte, len_bit_begin, len_bit_count)]

\* mutant: one length byte is read whatever the count
ReadLengthOneByte(b, count) ==
    IF Size(b) >= count THEN make_optional(front(b)) ELSE nullopt

ReadLength(b, count) ==
    IF HasAtLeast(b, count)
    THEN make_optional(ReadBytes(Expand(first(b, count))))
    ELSE nullopt

\* static_cast<Value>(byte) for a one-byte element
FromByte(type, byte) ==
    IF type = I1 THEN (IF byte >= 128 THEN byte - 256 ELSE byte) ELSE byte

\* bit::ReadBytes(bytes.subspan(i * sizeof(Value)), val, std::endian::big)
ReadValue(type, q) ==
    IF type \in SignedTypes THEN ReadSignedBytes(q) ELSE ReadBytes(q)

\* the loop of LoadItemValBytes for sizeof(Value) > 1: count elements read from
\* b, width bytes each; a run of equal bytes that holds k whole elements gives
\* k equal elements
RECURSIVE LoadWideVals(_, _, _, _, _)
LoadWideVals(type, width, b, count, vals) ==
    IF count = 0 THEN vals
    ELSE IF b[1].n >= width
    THEN LET k == IF b[1].n \div width < count THEN b[1].n \div width ELSE count
             x == ReadValue(type, [i \in 1..width |-> b[1].v])
         IN LoadWideVals(type, width, subspan(b, k * width), count - k,
                         Cat(vals, Fill(x, k)))
    ELSE LoadWideVals(type, width, subspan(b, width), count - 1,
                      push_back(vals, ReadValue(type, Expand(first(b, width)))))

\* the transform of LoadItemValBytes for sizeof(Value) <= 1
RECURSIVE LoadByteVals(_, _)
LoadByteVals(type, b) ==
    IF b = <<>> THEN <<>>
    ELSE Cat(Fill(FromByte(type, b[1].v), b[1].n), LoadByteVals(type, Tail(b)))

\* mutant: a span longer than the item is refused
LoadItemValBytesExactSize(type, b, len) ==
    IF Size(b) # len THEN unexpected(MakeIncompleteDataError)
    ELSE IF len % SizeOf(type) # 0
    THEN unexpected(MakeUnalignedLengthError(len, type, SizeOf(type)))
    ELSE LET count == len \div SizeOf(type) IN
         IF SizeOf(type) <= 1
         THEN expected(MkItem(type, LoadByteVals(type, first(b, count))), len)
         ELSE expected(MkItem(type, LoadWideVals(type, SizeOf(type), b, count, <<>>)), len)

\* mutant: a length that is no multiple of the element size is rounded down
LoadItemValBytesNoAlign(type, b, len) ==
    IF Size(b) < len THEN unexpected(MakeIncompleteDataError)
    ELSE LET count == len \div SizeOf(type) IN
         IF SizeOf(type) <= 1
         THEN expected(MkItem(type, LoadByteVals(type, first(b, count))), len)
         ELSE expected(MkItem(type, LoadWideVals(type, SizeOf(type), b, count, <<>>)), len)

\* mutant: the alignment of the length is checked before the size of the buffer
LoadItemValBytesAlignFirst(type, b, len) ==
    IF len % SizeOf(type) # 0
    THEN unexpected(MakeUnalignedLengthError(len, type, SizeOf(type)))
    ELSE IF Size(b) < len THEN unexpected(MakeIncompleteDataError)
    ELSE LET count == len \div SizeOf(type) IN
         IF SizeOf(type) <= 1
         THEN expected(MkItem(type, LoadByteVals(type, first(b, count))), len)
         ELSE expected(MkItem(type, LoadWideVals(type, SizeOf(type), b, count, <<>>)), len)

LoadItemValBytes(type, b, len) ==
    IF ~HasAtLeast(b, len) THEN unexpected(MakeIncompleteDataError)
    ELSE IF len % SizeOf(type) # 0
    THEN unexpected(MakeUnalignedLengthError(len, type, SizeOf(type)))
    ELSE LET count == len \div SizeOf(type) IN
         IF SizeOf(type) <= 1
         THEN expected(MkItem(type, LoadByteVals(type, first(b, count))), len)
         ELSE expected(MkItem(type, LoadWideVals(type, SizeOf(type), b, count, <<>>)), len)

\* mutant: only the byte 1 is true
ByteToBoolOne(byte) == IF byte = 1 THEN 1 ELSE 0

\* static_cast<bool>(byte)
ByteToBool(byte) == IF byte # 0 THEN 1 ELSE 0

LoadBoolValBytes(b, len) ==
    IF ~HasAtLeast(b, len) THEN unexpected(MakeIncompleteDataError)
    ELSE LET src == first(b, len) IN
         expected(MkItem(Boolean, Transform([i \in 1..Len(src) |->
                             [v |-> ByteToBool(src[i].v), n |-> src[i].n]])), len)

RECURSIVE LoadMsgBytes(_)
RECURSIVE LoadListLoopPartial(_, _, _)

\* mutant: a child that fails ends the loop with the children read so far
LoadListLoopPartial(lo, hi, st) ==
    IF ~st.has_value \/ lo = hi \/ st.rest = <<>> THEN st
    ELSE IF hi - lo = 1
    THEN LET ld == LoadMsgBytes(st.rest) IN
         IF ld.has_value
         THEN [st EXCEPT !.byte_size = @ + ld.second,
                         !.list = push_back(@, ld.first),
                         !.rest = subspan(@, ld.second)]
         ELSE [st EXCEPT !.rest = <<>>]
    ELSE LET half == LoadListLoopPartial(lo, (lo + hi) \div 2, st)
         IN LoadListLoopPartial((lo + hi) \div 2, hi, half)

RECURSIVE LoadListLoop(_, _, _)

\* the for loop of LoadListValBytes for i in lo .. hi-1, run by halves; st is
\* [has_value, list, byte_size, rest, error] with rest = bytes.subspan(byte_size).
\* Once a child has failed the loop is left with its error.
LoadListLoop(lo, hi, st) ==
    IF ~st.has_value \/ lo = hi THEN st
    ELSE IF hi - lo = 1
    THEN LET ld == LoadMsgBytes(st.rest) IN
         IF ld.has_value
         THEN [st EXCEPT !.byte_size = @ + ld.second,
                         !.list = push_back(@, ld.first),
                         !.rest = subspan(@, ld.second)]
         ELSE [st EXCEPT !.has_value = FALSE, !.error = ld.error]
    ELSE LET half == LoadListLoop(lo, (lo + hi) \div 2, st)
         IN LoadListLoop((lo + hi) \div 2, hi, half)

\* mutant: the number of children is returned as the number of bytes read
LoadListValBytesCount(b, len) ==
    LET count == len
        st == LoadListLoop(0, count,
                           [has_value |-> TRUE, list |-> <<>>, byte_size |-> 0,
                            rest |-> b, error |-> NoError])
    IN IF st.has_value THEN expected(MkList(st.list), count)
       ELSE unexpected(st.error)

\* mutant: a list whose child fails reports incomplete data
LoadListValBytesRemap(b, len) ==
    LET count == len
        st == LoadListLoop(0, count,
                           [has_value |-> TRUE, list |-> <<>>, byte_size |-> 0,
                            rest |-> b, error |-> NoError])
    IN IF st.has_value THEN expected(MkList(st.list), st.byte_size)
       ELSE unexpected(MakeIncompleteDataError)

LoadListValBytes(b, len) ==
    LET count == len
        st == LoadListLoop(0, count,
                           [has_value |-> TRUE, list |-> <<>>, byte_size |-> 0,
                            rest |-> b, error |-> NoError])
    IN IF st.has_value THEN expected(MkList(st.list), st.byte_size)
       ELSE unexpected(st.error)

\* the loaders map: LoadValBytes<T>
LoadValBytes(type, b, len) ==
    IF type = List THEN LoadListValBytes(b, len)
    ELSE IF type = Boolean THEN LoadBoolValBytes(b, len)
    ELSE LoadItemValBytes(type, b, len)

\* mutant: the length is read before the loader of the type is looked up
LoadMsgBytesLengthFirst(b) ==
    IF b = <<>> THEN unexpected(MakeIncompleteDataError)
    ELSE LET fb == ReadFormatByte(front(b))
             len == ReadLength(subspan(b, 1), fb.len_byte_count)
         IN
         IF IsExceedLengthByteCountRange(fb.len_byte_count)
         THEN unexpected(MakeInvalidLengthByteCountError(fb.len_byte_count))
         ELSE IF ~len.has_value THEN unexpected(MakeIncompleteDataError)
         ELSE IF fb.type \notin Types THEN unexpected(MakeUnknownTypeError(fb.type))
         ELSE LET r == LoadValBytes(fb.type, subspan(b, 1 + fb.len_byte_count), len.value)
              IN IF r.has_value
                 THEN expected(r.first, 1 + fb.len_byte_count + r.second)
                 ELSE r

LoadMsgBytes(b) ==
    IF b = <<>> THEN unexpected(MakeIncompleteDataError)
    ELSE LET fb == ReadFormatByte(front(b))
             type == fb.type
             len_byte_count == fb.len_byte_count
         IN
         IF IsExceedLengthByteCountRange(len_byte_count)
         THEN unexpected(MakeInvalidLengthByteCountError(len_byte_count))
         ELSE IF type \notin Types THEN unexpected(MakeUnknownTypeError(type))
         ELSE LET len_bytes == subspan(b, 1)
                  len == ReadLength(len_bytes, len_byte_count)
              IN
              IF len.has_value
              THEN LET val_bytes == subspan(len_bytes, len_byte_count)
                       r == LoadValBytes(type, val_bytes, len.value)
                   IN IF r.has_value
                      THEN expected(r.first, 1 + len_byte_count + r.second)
                      ELSE r
              ELSE unexpected(MakeIncompleteDataError)

\* BuildMsgFromBytes, Message::BuildFromBytes
BuildMsgFromBytes(b) == LoadMsgBytes(b)

(***************************************************************************)
(* read.h, read.cpp: the calls of reserve LoadMsgBytes(b) makes.  Each is  *)
(* [type, count, bound]: the count passed to reserve, and the lesser of    *)
(* that count and the number of elements the bytes of the span the loader  *)
(* was given could hold (an element of a list taken as one byte).          *)
(***************************************************************************)
\* a call of reserve(count) with the bytes b to read elements of a width from
ReserveCall(type, count, b, width) ==
    [type |-> type, count |-> count,
     bound |-> IF HasAtLeast(b, count * width) THEN count ELSE Size(b) \div width]

\* What LoadMsgBytes(b) does, without the values it builds:
\*   ok, size   whether it returns a value, and the size it returns with it
\*   calls      the calls of reserve made
\*   nodes      the calls of LoadMsgBytes, this one included, that returned a
\*              value; count, all the calls of LoadMsgBytes made
\*   depth      the most LoadListValBytes any of these calls was nested in
\*   least      the least size any of these calls returned with a value, 0
\*              when none returned one
\*   plain      whether every header read had the fewest length bytes its
\*              length takes, and every byte read as a Boolean was 0 or 1
NoScan ==
    [ok |-> FALSE, size |-> 0, calls |-> {}, nodes |-> 0, count |-> 1, depth |-> 0,
     least |-> 0, plain |-> TRUE]

Least(a, b) == IF a = 0 THEN b ELSE IF b = 0 \/ a < b THEN a ELSE b

RECURSIVE Scan(_)
RECURSIVE ScanListLoop(_, _, _)

\* the for loop of LoadListValBytes for i in lo .. hi-1, run by halves; st is
\* [ok, byte_size, rest, calls, nodes, count, depth, least, plain], left at the
\* first child that fails
ScanListLoop(lo, hi, st) ==
    IF ~st.ok \/ lo = hi THEN st
    ELSE IF hi - lo = 1
    THEN LET r == Scan(st.rest) IN
         [ok |-> r.ok,
          byte_size |-> st.byte_size + r.size,
          rest |-> IF r.ok THEN subspan(st.rest, r.size) ELSE <<>>,
          calls |-> st.calls \cup r.calls,
          nodes |-> st.nodes + r.nodes,
          count |-> st.count + r.count,
          depth |-> IF r.depth + 1 > st.depth THEN r.depth + 1 ELSE st.depth,
          least |-> Least(st.least, r.least),
          plain |-> st.plain /\ r.plain]
    ELSE LET half == ScanListLoop(lo, (lo + hi) \div 2, st)
         IN ScanListLoop((lo + hi) \div 2, hi, half)

\* LoadListValBytes: list.reserve(count), then the loop
ScanList(b, len) ==
    LET st == ScanListLoop(0, len,
                           [ok |-> TRUE, byte_size |-> 0, rest |-> b,
                            calls |-> {ReserveCall(List, len, b, 1)},
                            nodes |-> 0, count |-> 0, depth |-> 0, least |-> 0,
                            plain |-> TRUE])
    IN [ok |-> st.ok, size |-> st.byte_size, calls |-> st.calls,
        nodes |-> st.nodes, count |-> st.count, depth |-> st.depth,
        least |-> st.least, plain |-> st.plain]

\* LoadItemValBytes: vals.reserve(count) of a contiguous range, after the
\* checks of the size and the alignment; a Boolean is a deque and has no
\* alignment
ScanItem(type, b, len) ==
    IF ~HasAtLeast(b, len) \/ len % SizeOf(type) # 0
    THEN [ok |-> FALSE, size |-> 0, calls |-> {}, nodes |-> 0, count |-> 0, depth |-> 0,
          least |-> 0, plain |-> TRUE]
    ELSE [ok |-> TRUE, size |-> len,
          calls |-> IF type = Boolean THEN {}
                    ELSE {ReserveCall(type, len \div SizeOf(type), b, SizeOf(type))},
          nodes |-> 0, count |-> 0, depth |-> 0, least |-> 0,
          plain |-> \/ type # Boolean
                    \/ LET src == first(b, len)
                       IN \A i \in 1..Len(src) : src[i].v \in {0, 1}]

\* LoadMsgBytes: the loader is called once the header has been read
Scan(b) ==
    IF b = <<>> THEN NoScan
    ELSE LET fb == ReadFormatByte(front(b))
             len == ReadLength(subspan(b, 1), fb.len_byte_count)
         IN IF \/ IsExceedLengthByteCountRange(fb.len_byte_count)
               \/ fb.type \notin Types
               \/ ~len.has_value
            THEN NoScan
            ELSE LET val_bytes == subspan(b, 1 + fb.len_byte_count)
                     r == IF fb.type = List THEN ScanList(val_bytes, len.value)
                          ELSE ScanItem(fb.type, val_bytes, len.value)
                 IN [ok |-> r.ok,
                     size |-> IF r.ok THEN 1 + fb.len_byte_count + r.size ELSE 0,
                     calls |-> r.calls,
                     nodes |-> IF r.ok THEN r.nodes + 1 ELSE r.nodes,
                     count |-> r.count + 1,
                     depth |-> r.depth,
                     least |-> IF r.ok THEN Least(r.least, 1 + fb.len_byte_count + r.size)
                               ELSE r.least,
                     plain |-> /\ r.plain
                               /\ fb.len_byte_count = CalcLengthByteCount(len.value).value]

(***************************************************************************)
(* secs2.cpp: Message::GetSize.                                            *)
(***************************************************************************)
\* mutant: the size is the length of the header, in bytes for an item
GetSizeLength(v) == CalcLength(v)

\* list.size() for a List, raw.size() for an item
GetSize(v) == IF v.type = List THEN Size(v.kids) ELSE Size(v.elems)

(***************************************************************************)
(* sml.h, sml.cpp: the SML text of a value.  A std::string is the sequence *)
(* of the codes of its characters.                                         *)
(***************************************************************************)
\* the characters of the format strings: ' ', '"', '\n', '<', '>', '[', ']',
\* and the characters '-', '0', 'A' and 'x' numbers are written with
Space == 32
Quote == 34
NewLine == 10
Less == 60
Greater == 62
LeftBracket == 91
RightBracket == 93
Minus == 45
Zero == 48
UpperA == 65
LowerX == 120

\* format_tag<T>
format_tag(type) ==
    CASE type = Binary  -> <<66>>
      [] type = ASCII   -> <<65>>
      [] type = List    -> <<76>>
      [] type = Boolean -> <<66, 111, 111, 108, 101, 97, 110>>
      [] type = I1      -> <<73, 49>>
      [] type = I2      -> <<73, 50>>
      [] type = I4      -> <<73, 52>>
      [] type = I8      -> <<73, 56>>
      [] type = U1      -> <<85, 49>>
      [] type = U2      -> <<85, 50>>
      [] type = U4      -> <<85, 52>>
      [] type = U8      -> <<85, 56>>
      [] type = F4      -> <<70, 52>>
      [] type = F8      -> <<70, 56>>
      [] OTHER          -> <<85, 110, 107, 110, 111, 119, 110>>

\* mutant: the indentation of one level, whatever the level is
BuildIndentOneLevel(lvl, width) == [i \in 1..width |-> Space]

\* BuildIndent(lvl, width): lvl * width spaces
BuildIndent(lvl, width) == [i \in 1..(lvl * width) |-> Space]

\* std::format("{}", n) of a number that is not negative
RECURSIVE FormatNat(_)
FormatNat(n) ==
    IF n < 10 THEN <<Zero + n>> ELSE Append(FormatNat(n \div 10), Zero + (n % 10))

\* std::format("{}", n) of an integer: decimal digits after the sign of a
\* negative number; d is its last digit
FormatInt(n) ==
    IF n >= 0 THEN FormatNat(n)
    ELSE LET d == (10 - (n % 10)) % 10 IN
         <<Minus>> \o (IF n + d = 0 THEN <<>> ELSE FormatNat(-((n + d) \div 10)))
                  \o <<Zero + d>>

\* std::format("{}", x) of the float or double whose bits are given, for the
\* elements the float items are built from: 0.0, 1.0f and the least double
FormatFloat(type, bits) ==
    CASE bits = 0 -> <<Zero>>
      [] type = F4 /\ bits = 1065353216 -> <<Zero + 1>>
      [] type = F8 /\ bits = 1 -> <<Zero + 5, 101, Minus, Zero + 3, Zero + 2, Zero + 4>>

\* one digit of {:02X}
HexDigit(d) == IF d < 10 THEN Zero + d ELSE UpperA + (d - 10)

\* std::format("0x{:02X}", byte)
FormatHex(byte) == <<Zero, LowerX, HexDigit(byte \div 16), HexDigit(byte % 16)>>

\* val ? "true" : "false"
FormatBool(v) == IF v # 0 THEN <<116, 114, 117, 101>> ELSE <<102, 97, 108, 115, 101>>

\* the formatter BuildSml passes for the items of a type
Formatter(type, v) ==
    CASE type = Binary -> FormatHex(v)
      [] type = Boolean -> FormatBool(v)
      [] type \in {F4, F8} -> FormatFloat(type, v)
      [] OTHER -> FormatInt(v)

\* strs | std::views::join_with(sep)
RECURSIVE JoinWith(_, _)
JoinWith(strs, sep) ==
    IF strs = <<>> THEN <<>>
    ELSE IF Len(strs) = 1 THEN strs[1]
    ELSE strs[1] \o <<sep>> \o JoinWith(Tail(strs), sep)

\* BuildSml(os, vals, formatter, indent_lvl, indent_width): "{}<{} [{}] {}>"
\* of the joined elements, "{}<{} [{}]>" of no elements
BuildSmlFormatted(type, vals, indent_lvl, indent_width) ==
    LET spaces == BuildIndent(indent_lvl, indent_width)
        tag == format_tag(type)
    IN IF vals # <<>>
       THEN LET val_strs == [i \in 1..Size(vals) |-> Formatter(type, at(vals, i - 1))]
                str == JoinWith(val_strs, Space)
            IN spaces \o <<Less>> \o tag \o <<Space, LeftBracket>>
                  \o FormatNat(Size(vals)) \o <<RightBracket, Space>> \o str \o <<Greater>>
       ELSE spaces \o <<Less>> \o tag \o <<Space, LeftBracket>>
                  \o FormatNat(0) \o <<RightBracket, Greater>>

\* BuildSml(os, const ASCII&, ...): "{}<{} [{}] \"{}\">" of the string
BuildSmlASCII(vals, indent_lvl, indent_width) ==
    LET spaces == BuildIndent(indent_lvl, indent_width)
        tag == format_tag(ASCII)
    IN IF vals # <<>>
       THEN spaces \o <<Less>> \o tag \o <<Space, LeftBracket>>
               \o FormatNat(Size(vals)) \o <<RightBracket, Space, Quote>>
               \o Expand(vals) \o <<Quote, Greater>>
       ELSE spaces \o <<Less>> \o tag \o <<Space, LeftBracket>>
               \o FormatNat(0) \o <<RightBracket, Greater>>

\* mutant: the number in brackets is the length of the item in bytes
BuildSmlItemLength(item, indent_lvl, indent_width) ==
    LET spaces == BuildIndent(indent_lvl, indent_width) IN
    spaces \o <<Less>> \o format_tag(item.type) \o <<Space, LeftBracket>>
       \o FormatNat(CalcLengthItem(item)) \o <<RightBracket>>
       \o (IF item.elems = <<>> THEN <<>>
           ELSE <<Space>> \o JoinWith([i \in 1..Size(item.elems) |->
                    Formatter(item.type, at(item.elems, i - 1))], Space))
       \o <<Greater>>

\* BuildSml(os, const Item&, ...): the overload of the held type
BuildSmlItem(item, indent_lvl, indent_width) ==
    IF item.type = ASCII THEN BuildSmlASCII(item.elems, indent_lvl, indent_width)
    ELSE BuildSmlFormatted(item.type, item.elems, indent_lvl, indent_width)

\* BuildSml(os, const Message::Value&, ...), and for a List "{}<L [{}]\n",
\* every element at the next level followed by '\n', then "{}>"
RECURSIVE BuildSml(_, _, _)
RECURSIVE BuildSmlElems(_, _, _)
BuildSmlElems(list, indent_lvl, indent_width) ==
    IF list = <<>> THEN <<>>
    ELSE BuildSml(list[1], indent_lvl + 1, indent_width) \o <<NewLine>>
            \o BuildSmlElems(Tail(list), indent_lvl, indent_width)

BuildSml(v, indent_lvl, indent_width) ==
    IF v.type = List
    THEN LET spaces == BuildIndent(indent_lvl, indent_width) IN
         spaces \o <<Less, 76, Space, LeftBracket>> \o FormatNat(Size(v.kids))
            \o <<RightBracket, NewLine>>
            \o BuildSmlElems(Expand(v.kids), indent_lvl, indent_width)
            \o spaces \o <<Greater>>
    ELSE BuildSmlItem(v, indent_lvl, indent_width)

\* Message::ToSml(indent_width)
ToSml(v, indent_width) == BuildSml(v, 0, indent_width)

(***************************************************************************)
(* The inputs: the message values, buffers and byte strings the operations *)
(* are applied to.                                                         *)
(***************************************************************************)
MaxElems == 2
MaxChildren == 2
MaxDepth == 2
MaxSuffixLen == 1
MaxRawTail == 2

SeqsUpTo(S, n) == UNION {[1..k -> S] : k \in 0..n}

\* two elements of every item type
SampleElems(type) ==
    CASE type = Binary  -> {1, 255}
      [] type = Boolean -> {0, 1}
      [] type = ASCII   -> {109, 200}
      [] type = I1      -> {-1, 2}
      [] type = I2      -> {-2, 258}
      [] type = I4      -> {-2147483647 - 1, 16909060}
      [] type = I8      -> {-4, 16909060}
      [] type = U1      -> {1, 255}
      [] type = U2      -> {3, 65534}
      [] type = U4      -> {4, 16909060}
      [] type = U8      -> {5, 2147483647}
      [] type = F4      -> {0, 1065353216}
      [] type = F8      -> {0, 1}

\* an element of every item type all of whose bytes are equal
FillElem(type) ==
    CASE type \in SignedTypes -> -1
      [] type = Boolean -> 1
      [] type \in {Binary, U1} -> 255
      [] OTHER -> 0

SmallItems ==
    UNION {{MkItem(type, FromSeq(q)) : q \in SeqsUpTo(SampleElems(type), MaxElems)} :
           type \in ItemTypes}

\* the lengths around the limits of 1, 2 and 3 length bytes
LimitLengths == {uint8_max + 1, uint16_max + 1, max_len + 1}

\* items of one repeated element whose length is at a limit or one element below
BigItems ==
    UNION {{MkItem(type, Fill(FillElem(type), (l \div SizeOf(type)) - d)) :
            l \in LimitLengths, d \in {0, 1}} : type \in ItemTypes}

Items == SmallItems \cup BigItems

OverlongItem == MkItem(Binary, Fill(0, max_len + 1))
OverlongList == MkList(Fill(MkList(<<>>), max_len + 1))

\* the children lists are built from
Pool ==
    {MkItem(U1, FromSeq(<<1, 2>>)), MkItem(Boolean, Fill(1, uint8_max + 1)),
     MkList(<<>>), OverlongItem, OverlongList}

FlatLists == {MkList(FromSeq(q)) : q \in SeqsUpTo(Pool, MaxChildren)}

\* x nested d lists deep, each list holding an earlier sibling
RECURSIVE Nest(_, _)
Nest(d, x) ==
    IF d = 0 THEN x
    ELSE MkList(FromSeq(<<MkItem(ASCII, FromSeq(<<109, 200>>)), Nest(d - 1, x)>>))

NestedLists == {Nest(d, x) : d \in 1..MaxDepth, x \in FlatLists \cup {OverlongItem}}

\* lists of one repeated child, at the limit of 1 length byte and above it
BigLists ==
    {MkList(Fill(MkItem(Binary, <<>>), uint8_max)),
     MkList(Fill(MkList(<<>>), uint8_max + 1))}

\* the list of the serialization example of the README; push_back(list) copies
\* the list as it is then, with its one item
ReadmeList ==
    MkList(FromSeq(<<MkItem(U1, FromSeq(<<1, 2>>)),
                     MkList(FromSeq(<<MkItem(U1, FromSeq(<<1, 2>>))>>)),
                     MkItem(ASCII, FromSeq(<<109, 115, 103>>)),
                     MkItem(U2, FromSeq(<<3, 4>>)),
                     MkItem(U1, <<>>)>>))

\* the list of the SML example of the README and of the ToSml test
ReadmeSmlList ==
    MkList(FromSeq(<<MkItem(I1, <<>>),
                     MkItem(Binary, FromSeq(<<1, 2>>)),
                     MkList(FromSeq(<<MkItem(I1, <<>>), MkItem(Binary, FromSeq(<<1, 2>>))>>)),
                     MkItem(ASCII, FromSeq(<<104, 101, 108, 108, 111>>))>>))

\* the examples and the U2 item of the first on its own
ReadmeValues == {ReadmeList, MkItem(U2, FromSeq(<<3, 4>>)), ReadmeSmlList}

Values == Items \cup FlatLists \cup NestedLists \cup BigLists \cup ReadmeValues

\* the values ToSml is called on have at most MaxSmlSize elements in each of
\* their items and lists
MaxSmlSize == 5

RECURSIVE SmlSized(_)
SmlSized(v) ==
    /\ Size(v.elems) <= MaxSmlSize
    /\ Size(v.kids) <= MaxSmlSize
    /\ \A i \in 1..Len(v.kids) : SmlSized(v.kids[i].v)

\* the indent widths ToSml is called with, 4 being the default
IndentWidths == {0, 1, 4}

\* what a caller's buffer holds before BuildMsgBytes
Prefixes == {<<>>, FromSeq(<<1, 255>>)}

\* bytes that follow a message in a receive buffer
SuffixBytes == {165, 255}
Suffixes == {FromSeq(q) : q \in SeqsUpTo(SuffixBytes, MaxSuffixLen)}

\* hand-made buffers: the empty buffer; any format byte, then a few bytes; and
\* one of the format bytes below, then some more bytes, among them bytes that
\* are headers of nested messages
RawLengthBytes == {0, 1, 255}
RawTailBytes == {0, 1, 169, 255}
\* List N=1, List N=2, Binary N=1, Boolean N=1, ASCII N=1, I2 N=1, U2 N=0,
\* U2 N=1, U2 N=2, U4 N=1, List N=3, unknown N=1
FormatBytes == {1, 2, 33, 37, 65, 105, 168, 169, 170, 177, 3, 253}
\* one whole element of a 2-byte or 4-byte integer type behind its header: the
\* format bytes of I2, U2, I4, U4 with N=1, and the body bytes of the element
WideFormatBytes == {105, 169, 113, 177}
WideBodyBytes == {0, 1, 128, 255}
\* the first body byte: an element of U4 stays below 2^31
WideFirstBytes(fb) == IF fb = 177 THEN {0, 1} ELSE WideBodyBytes
WideItemBuffers ==
    UNION {{FromSeq(<<fb, SizeOf(fb \div 4), b1>> \o q) :
            b1 \in WideFirstBytes(fb),
            q \in [1..(SizeOf(fb \div 4) - 1) -> WideBodyBytes]} : fb \in WideFormatBytes}

\* Boolean items with N=1 whose body holds zero and several nonzero bytes
BooleanBodyBytes == {0, 1, 2, 255}
BooleanBuffers ==
    {FromSeq(<<37, Len(q)>> \o q) : q \in SeqsUpTo(BooleanBodyBytes, MaxElems + 1)}

RawBuffers ==
    {<<>>}
    \cup {FromSeq(<<b>> \o q) : b \in 0..255, q \in SeqsUpTo(RawLengthBytes, MaxRawTail)}
    \cup {FromSeq(<<b>> \o q) : b \in FormatBytes, q \in SeqsUpTo(RawTailBytes, MaxRawTail + 2)}
    \cup WideItemBuffers
    \cup BooleanBuffers

\* the header lengths BuildHeaderBytes is applied to
HeaderLengths ==
    {0, 1, uint8_max - 1, uint8_max, uint8_max + 1, uint16_max - 1, uint16_max,
     uint16_max + 1, max_len - 1, max_len}

\* the lengths FilterExceededLength is applied to
FilterLengths == {0, 1, max_len - 1, max_len, max_len + 1, 2 * max_len}

NotBuilt == [ret |-> nullopt, buf |-> <<>>]
NoBytes == [has_value |-> FALSE, value |-> <<>>]
NotLoaded == unexpected(NoError)
NoHeader == [type |-> Unknown, len |-> 0, out |-> <<>>]
NoQuery == [fn |-> "none", arg |-> 0, target |-> NoValue, ret |-> 0]

\* the elements an accessor is called on: the value of the message, and the
\* first and the last element of a list
Targets(v) ==
    {v} \cup (IF v.type = List /\ v.kids # <<>>
              THEN {at(v.kids, 0), at(v.kids, Size(v.kids) - 1)} ELSE {})

(***************************************************************************)
(* The state machine.                                                      *)
(*   val       the Message the encoder is given                            *)
(*   init_buf  the caller's buffer before BuildMsgBytes, buf after it      *)
(*   built     what BuildMsgBytes returned                                 *)
(*   wire      what Message::ToBytes returned                              *)
(*   bytes     the buffer handed to BuildMsgFromBytes, origin how it was   *)
(*             made, loaded what BuildMsgFromBytes returned                *)
(*   reserved  the capacities BuildMsgFromBytes reserved in the vectors it *)
(*             filled                                                      *)
(*   visited   the calls of LoadMsgBytes it made: how many returned a      *)
(*             value, how many there were, how deep in lists they went,    *)
(*             the least size one returned, and whether the bytes read are *)
(*             bytes the encoder writes                                    *)
(*   hdr       the arguments and the output of BuildHeaderBytes            *)
(*   query     the accessor called on the message or on one of its         *)
(*             elements, its argument and what it returned                 *)
(***************************************************************************)
InitCodec ==
    /\ val \in Values
    /\ init_buf \in Prefixes
    /\ bytes = <<>>
    /\ origin = [kind |-> "none", n |-> 0, suffix |-> <<>>]
    /\ hdr = NoHeader

InitRaw ==
    /\ val = NoValue
    /\ init_buf = <<>>
    /\ bytes \in RawBuffers
    /\ origin = [kind |-> "raw", n |-> 0, suffix |-> <<>>]
    /\ hdr = NoHeader

InitHeader ==
    /\ val = NoValue
    /\ init_buf \in Prefixes
    /\ bytes = <<>>
    /\ origin = [kind |-> "none", n |-> 0, suffix |-> <<>>]
    /\ \E t \in Types, l \in HeaderLengths : hdr = [type |-> t, len |-> l, out |-> <<>>]

InitLength ==
    /\ val = NoValue
    /\ init_buf = <<>>
    /\ bytes = <<>>
    /\ \E l \in FilterLengths : origin = [kind |-> "length", n |-> l, suffix |-> <<>>]
    /\ hdr = NoHeader

Init ==
    /\ InitCodec \/ InitRaw \/ InitHeader \/ InitLength
    /\ buf = init_buf
    /\ built = NotBuilt.ret
    /\ wire = NoBytes
    /\ loaded = NotLoaded
    /\ reserved = {}
    /\ visited = [nodes |-> 0, count |-> 0, depth |-> 0, least |-> 0, plain |-> TRUE]
    /\ query = NoQuery
    /\ op = "init"

\* byte::w::BuildMsgBytes(val, buf) on the caller's buffer
DoBuildMsgBytes ==
    /\ op = "init"
    /\ val # NoValue
    /\ LET r == BuildMsgBytes(val, buf) IN
       /\ buf' = r.buf
       /\ built' = r.ret
    /\ op' = "built"
    /\ UNCHANGED <<val, init_buf, wire, bytes, origin, loaded, hdr, query, reserved, visited>>

\* Message::ToBytes
DoToBytes ==
    /\ op = "init"
    /\ val # NoValue
    /\ init_buf = <<>>
    /\ wire' = ToBytes(val)
    /\ op' = "encoded"
    /\ UNCHANGED <<val, buf, init_buf, built, bytes, origin, loaded, hdr, query, reserved, visited>>

\* the encoding b of a message with its header rewritten to n length bytes
Reframe(b, n) ==
    LET fb == ReadFormatByte(front(b))
        len == ReadLength(subspan(b, 1), fb.len_byte_count).value
    IN Cat(FromSeq(<<fb.type * 4 + n>> \o WriteBytes(len, n)),
           subspan(b, 1 + fb.len_byte_count))

\* the length declared by the header of b
HeaderLength(b) ==
    ReadLength(subspan(b, 1), ReadFormatByte(front(b)).len_byte_count).value

\* the encoded message arrives in a receive buffer, followed by other bytes;
\* a peer may have written its length with more length bytes than needed
Receive ==
    /\ op = "encoded"
    /\ wire.has_value
    /\ \E n \in 1..max_len_byte_count, s \in Suffixes :
        /\ HeaderLength(wire.value) < 256 ^ n
        /\ bytes' = Cat(Reframe(wire.value, n), s)
        /\ origin' = [kind |-> "wire", n |-> n, suffix |-> s]
    /\ op' = "received"
    /\ UNCHANGED <<val, buf, init_buf, built, wire, loaded, hdr, query, reserved, visited>>

\* the lengths an encoding b of v is cut to: nothing, inside and right after the
\* header, inside the body, one or two bytes short, and before the last child
CutPoints(v, b) ==
    LET n == ReadFormatByte(front(b)).len_byte_count IN
    {k \in {0, 1, 2, n, 1 + n, 2 + n, Size(b) \div 2, Size(b) - 2, Size(b) - 1}
           \cup (IF v.type = List /\ v.kids # <<>>
                 THEN {Size(b) - Size(ToBytes(at(v.kids, Size(v.kids) - 1)).value)}
                 ELSE {}) :
        0 <= k /\ k < Size(b)}

\* only the first k bytes of the encoded message have arrived
Truncate ==
    /\ op = "encoded"
    /\ wire.has_value
    /\ \E k \in CutPoints(val, wire.value) :
        /\ bytes' = first(wire.value, k)
        /\ origin' = [kind |-> "cut", n |-> k, suffix |-> <<>>]
    /\ op' = "received"
    /\ UNCHANGED <<val, buf, init_buf, built, wire, loaded, hdr, query, reserved, visited>>

\* BuildMsgFromBytes(bytes)
DoBuildMsgFromBytes ==
    /\ \/ op = "received"
       \/ op = "init" /\ origin.kind = "raw"
    /\ loaded' = BuildMsgFromBytes(bytes)
    /\ LET sc == Scan(bytes) IN
       /\ reserved' = sc.calls
       /\ visited' = [nodes |-> sc.nodes, count |-> sc.count, depth |-> sc.depth,
                      least |-> sc.least, plain |-> sc.plain]
    /\ op' = "decoded"
    /\ UNCHANGED <<val, buf, init_buf, built, wire, bytes, origin, hdr, query>>

\* Message::GetValue<T>() on the message, GetItemValue<T>(elem) on an element
DoGetValue ==
    /\ op = "init"
    /\ val # NoValue
    /\ init_buf = <<>>
    /\ \E T \in Types, elem \in Targets(val) :
        query' = [fn |-> "GetValue", arg |-> T, target |-> elem,
                  ret |-> GetItemValue(T, elem)]
    /\ op' = "queried"
    /\ UNCHANGED <<val, buf, init_buf, built, wire, bytes, origin, loaded, hdr, reserved, visited>>

\* Message::GetSize
DoGetSize ==
    /\ op = "init"
    /\ val # NoValue
    /\ init_buf = <<>>
    /\ query' = [fn |-> "GetSize", arg |-> 0, target |-> val, ret |-> GetSize(val)]
    /\ op' = "queried"
    /\ UNCHANGED <<val, buf, init_buf, built, wire, bytes, origin, loaded, hdr, reserved, visited>>

\* Message::GetType
DoGetType ==
    /\ op = "init"
    /\ val # NoValue
    /\ init_buf = <<>>
    /\ query' = [fn |-> "GetType", arg |-> 0, target |-> val, ret |-> GetType(val)]
    /\ op' = "queried"
    /\ UNCHANGED <<val, buf, init_buf, built, wire, bytes, origin, loaded, hdr, reserved, visited>>

\* Message::ToSml(indent_width)
DoToSml ==
    /\ op = "init"
    /\ val # NoValue
    /\ init_buf = <<>>
    /\ SmlSized(val)
    /\ \E w \in IndentWidths :
        query' = [fn |-> "ToSml", arg |-> w, target |-> val, ret |-> ToSml(val, w)]
    /\ op' = "queried"
    /\ UNCHANGED <<val, buf, init_buf, built, wire, bytes, origin, loaded, hdr, reserved, visited>>

\* byte::w::BuildHeaderBytes(type, len, buf)
DoBuildHeaderBytes ==
    /\ op = "init"
    /\ hdr # NoHeader
    /\ hdr' = [hdr EXCEPT !.out = BuildHeaderBytes(hdr.type, hdr.len, buf)]
    /\ buf' = hdr'.out
    /\ op' = "header"
    /\ UNCHANGED <<val, init_buf, built, wire, bytes, origin, loaded, query, reserved, visited>>

\* byte::FilterExceededLength(len)
DoFilterExceededLength ==
    /\ op = "init"
    /\ origin.kind = "length"
    /\ query' = [fn |-> "FilterExceededLength", arg |-> origin.n, target |-> NoValue,
                 ret |-> FilterExceededLength(origin.n)]
    /\ op' = "queried"
    /\ UNCHANGED <<val, buf, init_buf, built, wire, bytes, origin, loaded, hdr, reserved, visited>>

Next ==
    \/ DoBuildMsgBytes
    \/ DoToBytes
    \/ Receive
    \/ Truncate
    \/ DoBuildMsgFromBytes
    \/ DoBuildHeaderBytes
    \/ DoGetValue
    \/ DoGetSize
    \/ DoGetType
    \/ DoToSml
    \/ DoFilterExceededLength

Spec == Init /\ [][Next]_vars

(***************************************************************************)
(* Definitions the properties are stated with.                             *)
(***************************************************************************)
\* the length L of a node: payload bytes of an item, direct children of a list
NodeLength(v) ==
    IF v.type = List THEN Size(v.kids) ELSE Size(v.elems) * SizeOf(v.type)

\* some node of the tree (the root or a descendant) has L > MAX_LENGTH
RECURSIVE HasOverlongNode(_)
HasOverlongNode(v) ==
    \/ NodeLength(v) > 16777215
    \/ \E i \in 1..Len(v.kids) : HasOverlongNode(v.kids[i].v)

\* the number of list levels below the root that hold a list with children
RECURSIVE Depth(_)
Depth(v) ==
    IF v.type # List \/ v.kids = <<>> THEN 0
    ELSE 1 + (LET ds == {Depth(v.kids[i].v) : i \in 1..Len(v.kids)}
              IN CHOOSE d \in ds : \A e \in ds : e <= d)

\* N of the format byte at the front of b, and the format code
FrontN(b) == front(b) % 4
FrontCode(b) == front(b) \div 4

\* the N the encoder wrote at the front of wire
WireN == FrontN(wire.value)

\* the bytes b[lo .. lo+n-1] (counted from 0) read as a big-endian number
RECURSIVE BigEndianAt(_, _, _)
BigEndianAt(b, lo, n) ==
    IF n = 0 THEN 0 ELSE BigEndianAt(b, lo, n - 1) * 256 + at(b, lo + n - 1)

\* the byte sequences of the children's own encodings, concatenated in order
RECURSIVE ChildrenBytes(_)
ChildrenBytes(kids) ==
    IF kids = <<>> THEN <<>>
    ELSE Cat(Repeat(ToBytes(kids[1].v).value, kids[1].n), ChildrenBytes(Tail(kids)))

Decoded == op = "decoded"
DecodedWire == op = "decoded" /\ origin.kind = "wire"
DecodedRaw == op = "decoded" /\ origin.kind = "raw"

(***************************************************************************)
(* C1  Round trip: when every node of val has L <= MAX_LENGTH,             *)
(* Message::ToBytes succeeds, and BuildMsgFromBytes of exactly the bytes   *)
(* it returned succeeds with (val, the number of those bytes).             *)
(***************************************************************************)
C1_RoundTrip ==
    /\ op = "encoded" /\ ~HasOverlongNode(val) => wire.has_value
    /\ DecodedWire /\ origin.n = WireN /\ origin.suffix = <<>>
         => loaded = expected(val, Size(wire.value))

\* a list nested two levels deep has made the round trip
C1_Witness ==
    /\ DecodedWire /\ origin.n = WireN /\ origin.suffix = <<>>
    /\ Depth(val) >= 2
    /\ loaded.has_value

(***************************************************************************)
(* C2  Prefix tolerance: BuildMsgFromBytes of the encoding followed by any *)
(* suffix returns (val, the length of the encoding): the suffix changes    *)
(* neither the value nor the consumed count.                               *)
(***************************************************************************)
C2_PrefixTolerance ==
    DecodedWire /\ origin.n = WireN
        => /\ loaded.has_value
           /\ loaded.first = val
           /\ loaded.second = Size(bytes) - Size(origin.suffix)

\* a list was decoded in front of a suffix that starts like an item header
C2_Witness ==
    /\ DecodedWire /\ origin.n = WireN
    /\ origin.suffix # <<>> /\ front(origin.suffix) = 165
    /\ val.type = List /\ val.kids # <<>>
    /\ loaded.has_value

(***************************************************************************)
(* C3  Encode is all-or-nothing: when BuildMsgBytes returns no value, the  *)
(* buffer holds exactly what it held before the call.                      *)
(***************************************************************************)
C3_AllOrNothing ==
    op = "built" /\ ~built.has_value => buf = init_buf

\* the call failed on an over-long child two lists deep, after the headers of
\* the enclosing lists and an earlier sibling were appended to a non-empty buffer
C3_Witness ==
    /\ op = "built" /\ ~built.has_value
    /\ init_buf # <<>>
    /\ val.type = List /\ NodeLength(val) = 2
    /\ at(val.kids, 1).type = List /\ NodeLength(at(val.kids, 1)) = 2
    /\ at(at(val.kids, 1).kids, 1) = OverlongItem

(***************************************************************************)
(* C4  Encode fails exactly on length overflow: Message::ToBytes returns   *)
(* no value if and only if some node of the tree has L > MAX_LENGTH.       *)
(***************************************************************************)
C4_FailsIffOverflow ==
    op = "encoded" => (~wire.has_value <=> HasOverlongNode(val))

\* ToBytes failed although the root's own length fits: a descendant is too long
C4_Witness ==
    /\ op = "encoded" /\ ~wire.has_value
    /\ NodeLength(val) <= 16777215
    /\ Depth(val) >= 1

(***************************************************************************)
(* C5  Wire layout: an item is written as [code*4 + N], N big-endian bytes *)
(* of L = n*W, then L body bytes; a list as [0*4 + N], N big-endian bytes  *)
(* of its child count, then its children's encodings in order; and the     *)
(* count BuildMsgBytes returns is the number of bytes it appended.         *)
(***************************************************************************)
C5_WireLayout ==
    /\ op = "encoded" /\ wire.has_value =>
        LET b == wire.value
            n == FrontN(b)
        IN /\ n \in 1..3
           /\ FrontCode(b) = val.type
           /\ Size(b) >= 1 + n
           /\ IF val.type = List
              THEN /\ BigEndianAt(b, 1, n) = Size(val.kids)
                   /\ subspan(b, 1 + n) = ChildrenBytes(val.kids)
              ELSE /\ BigEndianAt(b, 1, n) = Size(val.elems) * SizeOf(val.type)
                   /\ Size(b) - (1 + n) = Size(val.elems) * SizeOf(val.type)
    /\ op = "built" /\ built.has_value =>
        /\ built.value = Size(buf) - Size(init_buf)
        /\ first(buf, Size(init_buf)) = init_buf

\* a list with two children, the second of them a list, was laid out
C5_Witness ==
    /\ op = "encoded" /\ wire.has_value
    /\ val.type = List /\ NodeLength(val) = 2
    /\ at(val.kids, 1).type = List /\ at(val.kids, 1).kids # <<>>

\* the number of length bytes of the table of the header codec, for L <= MAX_LENGTH
TableN(l) == IF l <= 255 THEN 1 ELSE IF l <= 65535 THEN 2 ELSE 3

\* the n big-endian bytes of l, most significant first
BigEndian(l, n) == FromSeq([i \in 1..n |-> (l \div (256 ^ (n - i))) % 256])

(***************************************************************************)
(* C6  Minimal-N encode: a node of length L <= MAX_LENGTH is written with  *)
(* N = 1 for L <= 0xFF, 2 for 0xFF < L <= 0xFFFF, 3 above; that N is in    *)
(* bits 1..0 of the format byte and is the number of length bytes, which   *)
(* are L big-endian.  Stated of BuildHeaderBytes for every type and of the *)
(* root of every encoded value (every node of a value is also a value).    *)
(***************************************************************************)
C6_MinimalN ==
    /\ op = "header" =>
        hdr.out = Cat(init_buf,
                      Cat(FromSeq(<<hdr.type * 4 + TableN(hdr.len)>>),
                          BigEndian(hdr.len, TableN(hdr.len))))
    /\ op = "encoded" /\ wire.has_value =>
        LET l == NodeLength(val)
            n == TableN(l)
        IN first(wire.value, 1 + n) = Cat(FromSeq(<<val.type * 4 + n>>), BigEndian(l, n))

\* an item of 0x10000 bytes was encoded: the first length that needs N = 3
C6_Witness ==
    /\ op = "encoded" /\ wire.has_value
    /\ val.type # List /\ NodeLength(val) = 65536
    /\ WireN = 3

\* the body of the message at the front of b: what follows its header
BodyOf(b) == subspan(b, 1 + FrontN(b))

(***************************************************************************)
(* C7  Decoder tolerance of non-minimal N: a buffer that declares the same *)
(* type, L and body with any N in 1..3 in which L fits decodes to the same *)
(* value, and the consumed count is 1 + N + the body bytes.  Stated of the *)
(* encodings re-written with every N, and of every hand-made buffer that   *)
(* decodes: re-written with any other N it decodes to the same value.      *)
(***************************************************************************)
C7_DecoderTolerance ==
    /\ DecodedWire =>
        /\ loaded.has_value
        /\ loaded.first = val
        /\ loaded.second = 1 + origin.n + (Size(wire.value) - 1 - WireN)
    /\ DecodedRaw /\ loaded.has_value =>
        \A n \in 1..3 :
            HeaderLength(bytes) < 256 ^ n =>
                LoadMsgBytes(Reframe(bytes, n))
                    = expected(loaded.first, loaded.second - FrontN(bytes) + n)

\* a list whose encoder wrote N = 1 was decoded from a buffer with N = 3
C7_Witness ==
    /\ DecodedWire /\ loaded.has_value
    /\ WireN = 1 /\ origin.n = 3 /\ FrontN(bytes) = 3
    /\ val.type = List /\ val.kids # <<>>

\* the four causes of a decode failure, by the message of the error
IncompleteText == "Incomplete data"
UnknownTypeText == "Unknown format type: 0x{:02X}"
UnalignedText == "Length {} is not aligned to {} size {}"
InvalidCountText == "Invalid number of length bytes: {}"

Failed == op = "decoded" /\ ~loaded.has_value

\* the 14 format codes of the table
TableCodes == {0, 8, 9, 16, 24, 25, 26, 28, 40, 41, 42, 44, 32, 36}

\* the element width of a code of the table
TableWidth(c) ==
    IF c \in {26, 42} THEN 2 ELSE IF c \in {28, 44, 36} THEN 4
    ELSE IF c \in {24, 40, 32} THEN 8 ELSE 1

(***************************************************************************)
(* C8  Decode error codes: a failed decode carries message_size exactly    *)
(* when it failed for incomplete data or an unaligned item length, and     *)
(* argument_out_of_domain exactly when it failed for an unknown format     *)
(* code or an invalid number of length bytes; it carries no other code and *)
(* no value.  For a buffer that holds one item the cause is read off the   *)
(* buffer; where two causes meet in one buffer (an unknown code in front   *)
(* of a cut-off header) the cause is the one the decoder reports, and the  *)
(* code is the code of that cause.                                         *)
(***************************************************************************)
C8_ErrorCodes ==
    /\ Failed =>
        /\ loaded.first = NoValue /\ loaded.second = 0
        /\ loaded.error.code \in {message_size, argument_out_of_domain}
        /\ loaded.error.code = message_size
             <=> loaded.error.what.text \in {IncompleteText, UnalignedText}
        /\ loaded.error.code = argument_out_of_domain
             <=> loaded.error.what.text \in {UnknownTypeText, InvalidCountText}
    /\ Decoded /\ bytes = <<>> =>
        ~loaded.has_value /\ loaded.error.code = message_size
    /\ Decoded /\ bytes # <<>> /\ (FrontN(bytes) = 0 \/ FrontCode(bytes) \notin TableCodes) =>
        ~loaded.has_value /\ loaded.error.code = argument_out_of_domain
    /\ Decoded /\ bytes # <<>> /\ FrontN(bytes) # 0
         /\ FrontCode(bytes) \in TableCodes \ {0} =>
        LET incomplete ==
                \/ Size(bytes) < 1 + FrontN(bytes)
                \/ Size(BodyOf(bytes)) < HeaderLength(bytes)
            unaligned == HeaderLength(bytes) % TableWidth(FrontCode(bytes)) # 0
        IN IF incomplete \/ unaligned
           THEN ~loaded.has_value /\ loaded.error.code = message_size
           ELSE loaded.has_value

\* a decode failed on an item whose length is no multiple of its element size
C8_Witness ==
    /\ Failed
    /\ loaded.error.what.text = UnalignedText
    /\ loaded.error.code = message_size

\* one error of every cause
DecodeErrors ==
    {MakeIncompleteDataError, MakeUnknownTypeError(Unknown),
     MakeUnalignedLengthError(3, U2, 2), MakeInvalidLengthByteCountError(0)}

\* the errors that share their std::error_code with the error of text t
SameKind(t) ==
    IF t \in {IncompleteText, UnalignedText} THEN {IncompleteText, UnalignedText}
    ELSE {UnknownTypeText, InvalidCountText}

(***************************************************************************)
(* C9 as claimed: the kinds of the four causes are pairwise distinct, so   *)
(* the kind of a decode error identifies its cause: no error of another    *)
(* cause carries the same kind.                                            *)
(***************************************************************************)
C9_KindIdentifiesCause ==
    Failed =>
        \A e \in DecodeErrors :
            e.code = loaded.error.code => e.what.text = loaded.error.what.text

(***************************************************************************)
(* C9 as amended: the kind of a decode error is a std::errc that tells two *)
(* groups of causes apart: incomplete data and unaligned length share      *)
(* message_size, unknown type and invalid length-byte count share          *)
(* argument_out_of_domain.  Within a group only the message differs.       *)
(***************************************************************************)
C9_KindIdentifiesGroup ==
    Failed =>
        \A e \in DecodeErrors :
            /\ e.code = loaded.error.code <=> e.what.text \in SameKind(loaded.error.what.text)
            /\ e.what.text # loaded.error.what.text => e.what # loaded.error.what

\* a decode failed for an invalid number of length bytes
C9_Witness ==
    /\ Failed
    /\ loaded.error.what.text = InvalidCountText
    /\ FrontN(bytes) = 0

(***************************************************************************)
(* C10  Unknown format codes are rejected: a buffer whose format byte has  *)
(* N in 1..3 and a code outside the table of 14, and that holds at least   *)
(* 1+N bytes, fails with the unknown-type error of that code whatever      *)
(* follows; a code of the table never does, and with L = 0 it is decoded   *)
(* to an empty value of its type.                                          *)
(***************************************************************************)
C10_UnknownTypeRejected ==
    Decoded /\ bytes # <<>> /\ FrontN(bytes) \in 1..3 /\ Size(bytes) >= 1 + FrontN(bytes) =>
        IF FrontCode(bytes) \notin TableCodes
        THEN loaded = unexpected(MakeUnknownTypeError(FrontCode(bytes)))
        ELSE /\ loaded.has_value \/ loaded.error # MakeUnknownTypeError(FrontCode(bytes))
             /\ HeaderLength(bytes) = 0 =>
                  /\ loaded.has_value
                  /\ loaded.first = [type |-> FrontCode(bytes), elems |-> <<>>, kids |-> <<>>]
                  /\ loaded.second = 1 + FrontN(bytes)

\* the buffer FD 01 FF (code 0b111111, N = 1) was rejected
C10_Witness ==
    /\ DecodedRaw
    /\ bytes = FromSeq(<<253, 1, 255>>)
    /\ loaded = unexpected(MakeUnknownTypeError(63))

(***************************************************************************)
(* C11  Leaf alignment: a buffer that holds the header of an item of       *)
(* element width W and at least the L bytes it declares fails with the     *)
(* unaligned-length error of (L, type, W) when L mod W # 0, and otherwise  *)
(* decodes to L/W elements of that type with 1 + N + L bytes consumed      *)
(* (none for L = 0).  No unaligned-length error, at any depth, names a     *)
(* type of width 1.                                                        *)
(***************************************************************************)
C11_LeafAlignment ==
    /\ Decoded /\ bytes # <<>> /\ FrontN(bytes) \in 1..3
         /\ FrontCode(bytes) \in TableCodes \ {0}
         /\ Size(bytes) >= 1 + FrontN(bytes)
         /\ Size(BodyOf(bytes)) >= HeaderLength(bytes) =>
        LET l == HeaderLength(bytes)
            c == FrontCode(bytes)
            w == TableWidth(c)
        IN IF l % w # 0
           THEN loaded = unexpected(MakeUnalignedLengthError(l, c, w))
           ELSE /\ loaded.has_value
                /\ loaded.first.type = c /\ loaded.first.kids = <<>>
                /\ Size(loaded.first.elems) = l \div w
                /\ l = 0 => loaded.first.elems = <<>>
                /\ loaded.second = 1 + FrontN(bytes) + l
    /\ Failed /\ loaded.error.what.text = UnalignedText =>
        /\ TableWidth(loaded.error.what.args[2]) > 1
        /\ loaded.error.what.args[3] = TableWidth(loaded.error.what.args[2])
        /\ loaded.error.what.args[1] % loaded.error.what.args[3] # 0

\* a U2 item whose header declares one byte, with that byte present, was refused
C11_Witness ==
    /\ DecodedRaw /\ Failed /\ Size(bytes) >= 3
    /\ FrontCode(bytes) = 42 /\ FrontN(bytes) = 1
    /\ HeaderLength(bytes) = 1 /\ Size(BodyOf(bytes)) >= 1
    /\ loaded.error.what.text = UnalignedText

\* the positions of a sequence of l elements that are looked at: all of a short
\* one, the ends and the middle of a long one
Positions(l) == {i \in (0..7) \cup {l \div 2, l - 2, l - 1} : 0 <= i /\ i < l}

\* the buffer b with every nonzero byte of its body replaced by 1
WithTrueAsOne(b) ==
    Cat(first(b, 1 + FrontN(b)),
        Transform([i \in 1..Len(BodyOf(b)) |->
                      [v |-> IF BodyOf(b)[i].v # 0 THEN 1 ELSE 0, n |-> BodyOf(b)[i].n]]))

(***************************************************************************)
(* C12  Boolean bytes: a Boolean item is written with one body byte per    *)
(* element, in order, 1 for true and 0 for false; a decoded Boolean item   *)
(* has one element per body byte, in order, true exactly for the nonzero   *)
(* bytes (0xFF too), so the buffer with every nonzero body byte replaced   *)
(* by 1 decodes to the same result.                                        *)
(***************************************************************************)
C12_BooleanBytes ==
    /\ op = "encoded" /\ wire.has_value /\ val.type = Boolean =>
        LET body == BodyOf(wire.value) IN
        /\ Size(body) = Size(val.elems)
        /\ \A i \in Positions(Size(body)) :
              /\ at(body, i) \in {0, 1}
              /\ at(body, i) = 1 <=> at(val.elems, i) = 1
    /\ Decoded /\ loaded.has_value /\ loaded.first.type = Boolean =>
        LET body == first(BodyOf(bytes), HeaderLength(bytes))
            elems == loaded.first.elems
        IN /\ Size(elems) = Size(body)
           /\ \A i \in Positions(Size(body)) :
                 /\ at(elems, i) \in {0, 1}
                 /\ at(elems, i) = 1 <=> at(body, i) # 0
           /\ LoadMsgBytes(WithTrueAsOne(bytes)) = loaded

\* a Boolean item was decoded from the body bytes FF 00 02
C12_Witness ==
    /\ DecodedRaw /\ loaded.has_value
    /\ bytes = FromSeq(<<37, 3, 255, 0, 2>>)
    /\ loaded.first = MkItem(Boolean, FromSeq(<<1, 0, 1>>))

\* runs of at most this many equal children are walked child by child
MaxWalk == 4

\* Decoding the children kids one after the other from b, the first at pos and
\* each next one where the bytes of the one before end: the position after the
\* last, or -1 when some child does not decode to the child expected there.
\* Of a longer run of equal children the first and the last are decoded.
RECURSIVE WalkChildren(_, _, _)
WalkChildren(kids, b, pos) ==
    IF kids = <<>> THEN pos
    ELSE LET r == LoadMsgBytes(subspan(b, pos)) IN
         IF ~r.has_value \/ r.first # kids[1].v THEN -1
         ELSE IF kids[1].n = 1 THEN WalkChildren(Tail(kids), b, pos + r.second)
         ELSE IF kids[1].n <= MaxWalk
         THEN WalkChildren(<<[v |-> kids[1].v, n |-> kids[1].n - 1]>> \o Tail(kids),
                           b, pos + r.second)
         ELSE IF LoadMsgBytes(subspan(b, pos + (kids[1].n - 1) * r.second)) # r THEN -1
         ELSE WalkChildren(Tail(kids), b, pos + kids[1].n * r.second)

(***************************************************************************)
(* C13  List decode: a decoded List has exactly the L direct children its  *)
(* header declares; child i is what decoding gives at the position where   *)
(* child i-1 ends, the first right after the header; and the consumed      *)
(* count is the position after the last child: 1 + N + the sum of the      *)
(* children's consumed counts.  L counts direct children only.             *)
(***************************************************************************)
C13_ListDecode ==
    Decoded /\ loaded.has_value /\ loaded.first.type = List =>
        /\ FrontCode(bytes) = List
        /\ Size(loaded.first.kids) = HeaderLength(bytes)
        /\ loaded.first.elems = <<>>
        /\ WalkChildren(loaded.first.kids, bytes, 1 + FrontN(bytes)) = loaded.second

\* a list of two children was decoded whose second child is a list with two
\* children of its own
C13_Witness ==
    /\ Decoded /\ loaded.has_value /\ loaded.first.type = List
    /\ HeaderLength(bytes) = 2 /\ Size(loaded.first.kids) = 2
    /\ at(loaded.first.kids, 1).type = List
    /\ Size(at(loaded.first.kids, 1).kids) = 2

DecodedCut == op = "decoded" /\ origin.kind = "cut"

(***************************************************************************)
(* C14  Truncation is always incomplete: BuildMsgFromBytes of a proper     *)
(* prefix of an encoding (empty, cut inside the header, inside an item     *)
(* body, or before the last child of a list) fails with the incomplete-    *)
(* data error and returns no value.                                        *)
(***************************************************************************)
C14_TruncationIncomplete ==
    DecodedCut =>
        /\ Size(bytes) < Size(wire.value)
        /\ loaded = unexpected(MakeIncompleteDataError)

\* a list of two children was cut right before its last child
C14_Witness ==
    /\ DecodedCut /\ Failed
    /\ val.type = List /\ Size(val.kids) = 2
    /\ at(val.kids, 0) # MkList(<<>>)
    /\ origin.n = Size(wire.value) - Size(ToBytes(at(val.kids, 1)).value)
    /\ Size(ToBytes(at(val.kids, 1)).value) >= 2

\* the integer types of more than one byte
WideInts == {I2, I4, I8, U2, U4, U8}

\* x shifted right by k bytes (arithmetic shift: floor of x / 256^k)
RECURSIVE ShiftRightBytes(_, _)
ShiftRightBytes(x, k) == IF k = 0 THEN x ELSE ShiftRightBytes(x \div 256, k - 1)

\* byte k of x counted from the least significant, x in two's complement
ByteOf(x, k) == ShiftRightBytes(x, k) % 256

\* body holds element x of width w at element position i, most significant
\* byte first
HoldsBigEndian(body, i, w, x) ==
    \A j \in 0..(w - 1) : at(body, i * w + j) = ByteOf(x, w - 1 - j)

(***************************************************************************)
(* C15  Big-endian bodies: an item of a 2-, 4- or 8-byte integer type is   *)
(* written with W body bytes per element, in the order of the elements,    *)
(* most significant byte first, a signed element in two's complement; a    *)
(* decoded item of such a type holds, in order, the elements whose W bytes *)
(* most significant first are the body, each within the range of its type; *)
(* and decoding what was written gives back the elements.                  *)
(***************************************************************************)
C15_BigEndianBodies ==
    /\ op = "encoded" /\ wire.has_value /\ val.type \in WideInts =>
        LET body == BodyOf(wire.value)
            w == TableWidth(val.type)
        IN /\ Size(body) = Size(val.elems) * w
           /\ \A i \in Positions(Size(val.elems)) :
                 HoldsBigEndian(body, i, w, at(val.elems, i))
    /\ Decoded /\ loaded.has_value /\ loaded.first.type \in WideInts =>
        LET body == BodyOf(bytes)
            w == TableWidth(loaded.first.type)
            elems == loaded.first.elems
        IN \A i \in Positions(Size(elems)) :
              /\ HoldsBigEndian(body, i, w, at(elems, i))
              /\ IF loaded.first.type \in {U2, U4, U8}
                 THEN ShiftRightBytes(at(elems, i), w) = 0
                 ELSE ShiftRightBytes(at(elems, i), w)
                          = (IF at(body, i * w) >= 128 THEN -1 ELSE 0)
    /\ DecodedWire /\ val.type \in WideInts => loaded.first.elems = val.elems

\* the I2 elements -2 and 258 were written as FF FE 01 02
C15_Witness ==
    /\ op = "encoded" /\ wire.has_value
    /\ val = MkItem(I2, FromSeq(<<-2, 258>>))
    /\ wire.value = FromSeq(<<105, 4, 255, 254, 1, 2>>)

Queried(fn) == op = "queried" /\ query.fn = fn

(***************************************************************************)
(* C16  Typed projection: GetValue<T> of a message, and GetItemValue<T> of *)
(* a list element, returns the stored sequence when the stored value is of *)
(* type T and no value for every other T of List and the 13 item types: a  *)
(* List projects to no item type and an item does not project to List.     *)
(***************************************************************************)
C16_TypedProjection ==
    Queried("GetValue") =>
        /\ query.ret.has_value <=> query.target.type = query.arg
        /\ query.ret.has_value => query.ret.value = query.target
        /\ query.target.type = List /\ query.arg # List => ~query.ret.has_value
        /\ query.target.type # List /\ query.arg = List => ~query.ret.has_value

\* an element of a list that holds U1 was asked for I1 and gave nothing
C16_Witness ==
    /\ Queried("GetValue")
    /\ val.type = List /\ query.target # val
    /\ query.target.type = U1 /\ query.arg = I1
    /\ ~query.ret.has_value

(***************************************************************************)
(* C17  GetSize counts elements, not bytes: for an item of element width W *)
(* GetSize() * W is the length L its header stores, for a list GetSize()   *)
(* is the number of direct children its header stores, whatever the        *)
(* children hold; and the decoded message has the GetSize() of the encoded *)
(* one.                                                                    *)
(***************************************************************************)
C17_GetSizeCountsElements ==
    /\ Queried("GetSize") /\ ~HasOverlongNode(val) =>
        LET l == HeaderLength(ToBytes(val).value) IN
        IF val.type = List THEN query.ret = l
        ELSE query.ret * TableWidth(val.type) = l
    /\ Queried("GetSize") /\ val.type = List =>
        query.ret = Size(val.kids)
    /\ DecodedWire =>
        /\ GetSize(loaded.first) = GetSize(val)
        /\ IF val.type = List THEN GetSize(loaded.first) = HeaderLength(bytes)
           ELSE GetSize(loaded.first) * TableWidth(val.type) = HeaderLength(bytes)

\* GetSize of an item of two 8-byte elements gave 2
C17_Witness ==
    /\ Queried("GetSize")
    /\ TableWidth(val.type) = 8 /\ val.type # List
    /\ query.ret = 2

\* GetType of v and of every element below it is one of the codes of the table
RECURSIVE AllTypesOfTable(_)
AllTypesOfTable(v) ==
    /\ GetType(v) \in TableCodes
    /\ \A i \in 1..Len(v.kids) : AllTypesOfTable(v.kids[i].v)

(***************************************************************************)
(* C18  The type of a value is never Unknown: GetType() of a constructed   *)
(* message is one of the 14 types; GetType() of a decoded message, and of  *)
(* every element below it, is one of the 14 types, and that of the message *)
(* is the format code in bits 7..2 of the first byte of the buffer.        *)
(* Unknown, like every code outside the table, is met only in the unknown- *)
(* type error of a failed decode.                                          *)
(***************************************************************************)
C18_TypeNeverUnknown ==
    /\ Queried("GetType") =>
        /\ query.ret \in TableCodes /\ query.ret # 63
        /\ AllTypesOfTable(val)
    /\ Decoded /\ loaded.has_value =>
        /\ GetType(loaded.first) = FrontCode(bytes)
        /\ GetType(loaded.first) # 63
        /\ AllTypesOfTable(loaded.first)
    /\ Decoded /\ bytes # <<>> /\ FrontCode(bytes) = 63 =>
        /\ ~loaded.has_value
        /\ FrontN(bytes) # 0 => loaded.error = MakeUnknownTypeError(63)
    /\ Failed /\ loaded.error.what.text = UnknownTypeText =>
        loaded.error.what.args[1] \notin TableCodes

\* GetType of a constructed F8 item gave F8
C18_Witness ==
    /\ Queried("GetType")
    /\ val.type = 32 /\ val.elems # <<>>
    /\ query.ret = 32

\* the bytes the README lists for its serialization example
ReadmeListedBytes ==
    <<1, 5>> \o <<165, 2, 1, 2>> \o <<1, 1, 165, 2, 1, 2>> \o <<65, 3, 109, 115, 103>>
    \o <<169, 2, 0, 3, 0, 4>> \o <<165, 0>>

\* the same bytes with the length byte of the U2 item counting its 4 body bytes
ReadmeBytes ==
    <<1, 5>> \o <<165, 2, 1, 2>> \o <<1, 1, 165, 2, 1, 2>> \o <<65, 3, 109, 115, 103>>
    \o <<169, 4, 0, 3, 0, 4>> \o <<165, 0>>

\* Message::ToBytes has returned the bytes of the README's list
EncodedReadme == op = "encoded" /\ val = ReadmeList

HoldsAt(text, p, s) ==
    /\ p + Len(s) - 1 <= Len(text)
    /\ SubSeq(text, p, p + Len(s) - 1) = s

\* the rendering of element i of a leaf
SmlElem(leaf, i) == Formatter(leaf.type, at(leaf.elems, i - 1))

\* the characters of a leaf's elements before element i, separators included
RECURSIVE SmlElemStart(_, _)
SmlElemStart(leaf, i) ==
    IF i = 1 THEN 0
    ELSE SmlElemStart(leaf, i - 1) + Len(SmlElem(leaf, i - 1)) + 1

\* '<TAG [n]' with a given number n
SmlHead(leaf, n) ==
    <<Less>> \o format_tag(leaf.type) \o <<Space, LeftBracket>> \o FormatNat(n)
             \o <<RightBracket>>

\* text is '<TAG [n] e1 e2 ... en>' for a leaf of n > 0 elements, '<TAG [n]
\* "e1e2...en">' for an ASCII leaf, and '<TAG [0]>' for n = 0
IsLeafForm(text, leaf) ==
    LET n == Size(leaf.elems)
        head == SmlHead(leaf, n)
        base == Len(head) + 1
    IN /\ HoldsAt(text, 1, head)
       /\ text[Len(text)] = Greater
       /\ n > 0 /\ SizeOf(leaf.type) > 1 => ~HoldsAt(text, 1, SmlHead(leaf, CalcLengthItem(leaf)))
       /\ IF n = 0 THEN Len(text) = base
          ELSE /\ text[base] = Space
               /\ IF leaf.type = ASCII
                  THEN /\ Len(text) = base + n + 3
                       /\ text[base + 1] = Quote
                       /\ \A i \in 1..n : text[base + 1 + i] = at(leaf.elems, i - 1)
                       /\ text[base + n + 2] = Quote
                  ELSE /\ \A i \in 1..n :
                            /\ HoldsAt(text, base + SmlElemStart(leaf, i) + 1, SmlElem(leaf, i))
                            /\ \A j \in 1..Len(SmlElem(leaf, i)) : SmlElem(leaf, i)[j] # Space
                            /\ i < n => text[base + SmlElemStart(leaf, i + 1)] = Space
                       /\ Len(text) = base + SmlElemStart(leaf, n) + Len(SmlElem(leaf, n)) + 1

\* where the text of child i of a list starts in the text of the list at
\* level 0: after '<L [k]', a newline, and the earlier children's lines
RECURSIVE SmlChildStart(_, _, _)
SmlChildStart(list, w, i) ==
    IF i = 1 THEN Len(SmlHead(list, Size(list.kids))) + 2
    ELSE SmlChildStart(list, w, i - 1) + Len(BuildSml(at(list.kids, i - 2), 1, w)) + 1

(***************************************************************************)
(* C20  SML leaf form: ToSml renders a leaf of n > 0 elements as           *)
(* '<TAG [n] e1 e2 ... en>', the elements in order and separated by        *)
(* exactly one space, and a leaf of no elements, an ASCII one included, as *)
(* '<TAG [0]>' without a trailing space or quotes.  The number in brackets *)
(* is the element count n, not the byte length L.  An ASCII leaf is one    *)
(* double-quoted string after its character count.  A leaf that is a       *)
(* child of the rendered list has this form after its indentation, on a    *)
(* line of its own.                                                        *)
(***************************************************************************)
C20_SmlLeafForm ==
    Queried("ToSml") =>
        IF val.type # List THEN IsLeafForm(query.ret, val)
        ELSE \A i \in 1..Size(val.kids) :
                LET child == at(val.kids, i - 1)
                    w == query.arg
                    start == SmlChildStart(val, w, i)
                    end == start + Len(BuildSml(child, 1, w)) - 1
                IN child.type # List =>
                    /\ HoldsAt(query.ret, start, BuildIndent(1, w))
                    /\ IsLeafForm(SubSeq(query.ret, start + w, end), child)
                    /\ query.ret[end + 1] = NewLine

\* ToSml of I2{-2, 258} gave '<I2 [2] -2 258>'
C20_Witness ==
    /\ Queried("ToSml")
    /\ val = MkItem(I2, FromSeq(<<-2, 258>>))
    /\ query.ret = <<60, 73, 50, 32, 91, 50, 93, 32, 45, 50, 32, 50, 53, 56, 62>>

\* n spaces
Spaces(n) == [i \in 1..n |-> Space]

\* the number of characters of the leaf form of a leaf
SmlLeafLen(leaf) ==
    LET n == Size(leaf.elems)
        base == Len(SmlHead(leaf, n)) + 1
    IN IF n = 0 THEN base
       ELSE IF leaf.type = ASCII THEN base + n + 3
       ELSE base + SmlElemStart(leaf, n) + Len(SmlElem(leaf, n)) + 1

\* the position after the form of v at level d that text holds from position
\* p on, 0 if it holds none: a leaf form after d * w spaces, or '<L [k]' after
\* d * w spaces and a newline, the forms of the k children at level d + 1 each
\* followed by a newline, and '>' after d * w spaces
RECURSIVE MatchSml(_, _, _, _, _)
RECURSIVE MatchSmlKids(_, _, _, _, _)
MatchSmlKids(text, p, kids, d, w) ==
    IF kids = <<>> THEN p
    ELSE LET q == MatchSml(text, p, kids[1], d, w) IN
         IF q = 0 \/ q > Len(text) THEN 0
         ELSE IF text[q] # NewLine THEN 0
         ELSE MatchSmlKids(text, q + 1, Tail(kids), d, w)

MatchSml(text, p, v, d, w) ==
    IF v.type # List
    THEN LET e == p + d * w + SmlLeafLen(v) IN
         IF e - 1 > Len(text) THEN 0
         ELSE IF /\ HoldsAt(text, p, Spaces(d * w))
                 /\ IsLeafForm(SubSeq(text, p + d * w, e - 1), v)
              THEN e ELSE 0
    ELSE LET head == Spaces(d * w) \o <<Less, 76, Space, LeftBracket>>
                        \o FormatNat(Size(v.kids)) \o <<RightBracket, NewLine>>
         IN IF ~HoldsAt(text, p, head) THEN 0
            ELSE LET q == MatchSmlKids(text, p + Len(head), Expand(v.kids), d + 1, w) IN
                 IF q = 0 THEN 0
                 ELSE IF HoldsAt(text, q, Spaces(d * w) \o <<Greater>>)
                      THEN q + d * w + 1 ELSE 0

(***************************************************************************)
(* C21  SML list form: a List at level d rendered with indent width w is   *)
(* the line '<L [k]' after d * w spaces, then its k children in order,     *)
(* each rendered at level d + 1 and ended by a newline, then '>' after     *)
(* d * w spaces with no newline after it.  An empty list is '<L [0]', a    *)
(* newline and '>'.  The text of the message starts at level 0, without    *)
(* leading spaces.                                                         *)
(***************************************************************************)
C21_SmlListForm ==
    Queried("ToSml") /\ val.type = List =>
        /\ MatchSml(query.ret, 1, val, 0, query.arg) = Len(query.ret) + 1
        /\ query.ret[1] = Less
        /\ query.ret[Len(query.ret)] = Greater
        /\ val.kids = <<>> => query.ret = <<60, 76, 32, 91, 48, 93, 10, 62>>

\* ToSml(4) of the list of the README, which holds a list, gave its text
C21_Witness ==
    /\ Queried("ToSml")
    /\ val = ReadmeSmlList
    /\ query.arg = 4
    /\ query.ret = <<60, 76, 32, 91, 52, 93, 10, 32, 32, 32, 32, 60, 73, 49, 32, 91, 48, 93, 62, 10, 32, 32, 32, 32, 60, 66, 32, 91, 50, 93, 32, 48, 120, 48, 49, 32, 48, 120, 48, 50, 62, 10, 32, 32, 32, 32, 60, 76, 32, 91, 50, 93, 10, 32, 32, 32, 32, 32, 32, 32, 32, 60, 73, 49, 32, 91, 48, 93, 62, 10, 32, 32, 32, 32, 32, 32, 32, 32, 60, 66, 32, 91, 50, 93, 32, 48, 120, 48, 49, 32, 48, 120, 48, 50, 62, 10, 32, 32, 32, 32, 62, 10, 32, 32, 32, 32, 60, 65, 32, 91, 53, 93, 32, 34, 104, 101, 108, 108, 111, 34, 62, 10, 62>>

\* the decoded buffer is not empty and its format byte has N length bytes, N > 0
DecodedHeader == Decoded /\ bytes # <<>> /\ FrontN(bytes) # 0

(***************************************************************************)
(* C22  As stated: on a non-empty buffer N = 0 fails with the invalid      *)
(* length-byte count error for any format code; otherwise a buffer of      *)
(* fewer than 1 + N bytes fails with the incomplete error whatever the     *)
(* format code is; a format code outside the table fails with the          *)
(* unknown-type error only when the N length bytes are there.              *)
(***************************************************************************)
C22_LengthBeforeType ==
    /\ Decoded /\ bytes # <<>> /\ FrontN(bytes) = 0 =>
        ~loaded.has_value /\ loaded.error = MakeInvalidLengthByteCountError(0)
    /\ DecodedHeader /\ Size(bytes) < 1 + FrontN(bytes) =>
        ~loaded.has_value /\ loaded.error = MakeIncompleteDataError
    /\ DecodedHeader /\ Size(bytes) >= 1 + FrontN(bytes)
          /\ FrontCode(bytes) \notin TableCodes =>
        ~loaded.has_value /\ loaded.error = MakeUnknownTypeError(FrontCode(bytes))

(***************************************************************************)
(* C22  Header decode checks: on a non-empty buffer N = 0 fails with the   *)
(* invalid length-byte count error for any format code; otherwise a format *)
(* code outside the table fails with the unknown-type error, whether the   *)
(* N length bytes are there or not; only for a format code of the table    *)
(* does a buffer of fewer than 1 + N bytes fail with the incomplete error. *)
(***************************************************************************)
C22_TypeBeforeLength ==
    /\ Decoded /\ bytes # <<>> /\ FrontN(bytes) = 0 =>
        ~loaded.has_value /\ loaded.error = MakeInvalidLengthByteCountError(0)
    /\ DecodedHeader /\ FrontCode(bytes) \notin TableCodes =>
        ~loaded.has_value /\ loaded.error = MakeUnknownTypeError(FrontCode(bytes))
    /\ DecodedHeader /\ FrontCode(bytes) \in TableCodes
          /\ Size(bytes) < 1 + FrontN(bytes) =>
        ~loaded.has_value /\ loaded.error = MakeIncompleteDataError

\* a buffer of an unknown format code whose length bytes are missing failed
\* with the unknown-type error
C22_Witness ==
    /\ DecodedHeader
    /\ FrontCode(bytes) \notin TableCodes
    /\ Size(bytes) < 1 + FrontN(bytes)
    /\ loaded.error.what.text = UnknownTypeText

\* the decoded buffer holds the whole header of an item
DecodedLeafHeader ==
    /\ DecodedHeader
    /\ Size(bytes) >= 1 + FrontN(bytes)
    /\ FrontCode(bytes) \in TableCodes \ {List}

(***************************************************************************)
(* C23  Leaf body check order: a buffer that holds the header of an item   *)
(* and fewer payload bytes than the L it declares fails with the           *)
(* incomplete error, also when L is no multiple of the element width; the  *)
(* unaligned-length error is reported only when at least L payload bytes   *)
(* are there, and never for a Boolean item.                                *)
(***************************************************************************)
C23_LeafCheckOrder ==
    /\ DecodedLeafHeader /\ Size(BodyOf(bytes)) < HeaderLength(bytes) =>
        loaded = unexpected(MakeIncompleteDataError)
    /\ DecodedLeafHeader /\ ~loaded.has_value
          /\ loaded.error.what.text = UnalignedText =>
        /\ Size(BodyOf(bytes)) >= HeaderLength(bytes)
        /\ HeaderLength(bytes) % TableWidth(FrontCode(bytes)) # 0
        /\ FrontCode(bytes) # Boolean

\* an item of a type wider than a byte whose L is unaligned and whose payload
\* is short failed with the incomplete error
C23_Witness ==
    /\ DecodedLeafHeader
    /\ TableWidth(FrontCode(bytes)) > 1
    /\ HeaderLength(bytes) % TableWidth(FrontCode(bytes)) # 0
    /\ Size(BodyOf(bytes)) < HeaderLength(bytes)
    /\ Size(BodyOf(bytes)) > 0
    /\ loaded = unexpected(MakeIncompleteDataError)

\* b starts with the whole header of a list
HoldsListHeader(b) ==
    /\ b # <<>>
    /\ FrontN(b) # 0
    /\ FrontCode(b) = List
    /\ Size(b) >= 1 + FrontN(b)

\* where the decode of a buffer b that fails went wrong: the bytes the first
\* failing child starts at, in left-to-right depth-first order, which are no
\* whole header of a list; b itself when b is no list.  The first MaxWalk
\* children of every list are looked at.
RECURSIVE Culprit(_)
RECURSIVE CulpritAmong(_, _)
CulpritAmong(rest, n) ==
    IF n = 0 THEN [found |-> FALSE, at |-> <<>>]
    ELSE LET r == LoadMsgBytes(rest) IN
         IF r.has_value THEN CulpritAmong(subspan(rest, r.second), n - 1)
         ELSE Culprit(rest)

Culprit(b) ==
    IF HoldsListHeader(b)
    THEN CulpritAmong(BodyOf(b), IF HeaderLength(b) < MaxWalk THEN HeaderLength(b) ELSE MaxWalk)
    ELSE [found |-> TRUE, at |-> b]

(***************************************************************************)
(* C24  Error propagation: when the decode of a list, nested to any depth, *)
(* fails, the error the caller gets is, code and message, the error of the *)
(* first child that failed in left-to-right depth-first order, as its own  *)
(* header or item body produced it; the lists around it do not change it,  *)
(* and what follows the failing child has no part in it.                   *)
(***************************************************************************)
C24_ErrorPropagation ==
    Failed /\ HoldsListHeader(bytes) /\ Culprit(bytes).found =>
        LET c == Culprit(bytes).at IN
        /\ ~HoldsListHeader(c)
        /\ ~LoadMsgBytes(c).has_value
        /\ loaded.error = LoadMsgBytes(c).error

\* a list in a list whose child has an unknown format code failed with the
\* unknown-type error of that code
C24_Witness ==
    /\ Failed /\ HoldsListHeader(bytes)
    /\ HoldsListHeader(BodyOf(bytes))
    /\ Culprit(bytes).found
    /\ Culprit(bytes).at # <<>>
    /\ loaded.error = MakeUnknownTypeError(FrontCode(Culprit(bytes).at))

(***************************************************************************)
(* C25  Eager allocation is bounded by the input: every capacity the       *)
(* decoder reserves before it reads the elements, of an item or of a list, *)
(* is at most the declared count and at most the number of elements the    *)
(* bytes left in the buffer could hold.                                    *)
(***************************************************************************)
C25_ReserveBounded ==
    Decoded => \A r \in reserved : r.count <= r.bound

\* what the first c bytes of a buffer are followed by in another buffer:
\* nothing, or the header of an item
OtherTails == {<<>>, FromSeq(<<165, 1>>)}

\* The message r decoded from b has a consumed count c with 2 <= c <= len(b),
\* and the first c bytes of b followed by any other bytes decode to the same
\* message and count; so do the first MaxChildren children of every decoded list,
\* each from the bytes it starts at.
RECURSIVE IsLocal(_, _)
RECURSIVE AreLocal(_, _)
AreLocal(rest, n) ==
    \/ n = 0
    \/ LET r == LoadMsgBytes(rest) IN
       /\ r.has_value
       /\ IsLocal(rest, r)
       /\ AreLocal(subspan(rest, r.second), n - 1)

IsLocal(b, r) ==
    /\ 2 <= r.second
    /\ r.second <= Size(b)
    /\ \A s \in OtherTails : LoadMsgBytes(Cat(first(b, r.second), s)) = r
    /\ r.first.type = List =>
        AreLocal(BodyOf(b), IF Size(r.first.kids) < MaxChildren
                            THEN Size(r.first.kids) ELSE MaxChildren)

(***************************************************************************)
(* C26  Consumed count and locality: a decode that succeeds with (V, c)    *)
(* has 2 <= c <= len(B), and every buffer that starts with the first c     *)
(* bytes of B decodes to (V, c) as well.  This holds for any buffer,       *)
(* encoded by the library or not, and for every child of a decoded list    *)
(* from the position it starts at.                                         *)
(***************************************************************************)
C26_ConsumedLocality ==
    Decoded /\ loaded.has_value =>
        IsLocal(bytes, loaded)

\* a hand-made buffer was decoded to a list with a child, and bytes follow it
C26_Witness ==
    /\ DecodedRaw /\ loaded.has_value
    /\ loaded.first.type = List /\ loaded.first.kids # <<>>
    /\ loaded.second < Size(bytes)

(***************************************************************************)
(* C27  Decoding ends within bounds the length n of the buffer sets,       *)
(* whatever child counts the headers declare: every call of LoadMsgBytes   *)
(* that returns a value, for the message or for an element of a list,      *)
(* returns a size of 2 or more; at most n/2 calls return a value; no call  *)
(* is nested in more than n/2 lists; and at most n/2 + 1 calls are made,   *)
(* the last of them the one that fails.                                    *)
(***************************************************************************)
C27_DecodeBounded ==
    Decoded =>
        /\ loaded.has_value => loaded.second >= 2
        /\ visited.nodes > 0 => visited.least >= 2
        /\ 2 * visited.nodes <= Size(bytes)
        /\ 2 * visited.depth <= Size(bytes)
        /\ visited.count <= Size(bytes) \div 2 + 1

\* a hand-made buffer whose list header declares more children than follow it:
\* an element was decoded, and the call after it failed
C27_Witness ==
    /\ DecodedRaw /\ ~loaded.has_value
    /\ HoldsListHeader(bytes)
    /\ visited.nodes >= 1 /\ visited.depth >= 1
    /\ visited.count > visited.nodes
    /\ HeaderLength(bytes) > Size(bytes)

(***************************************************************************)
(* C28  Re-encoding a decoded value: when BuildMsgFromBytes(bytes) returns *)
(* (V, c), ToBytes(V) succeeds and returns at most c bytes; they are the   *)
(* first c bytes of the buffer when every header read there has the fewest *)
(* length bytes for its length and every byte of a Boolean is 0 or 1.      *)
(***************************************************************************)
C28_Reencode ==
    Decoded /\ loaded.has_value =>
        LET again == ToBytes(loaded.first) IN
        /\ again.has_value
        /\ Size(again.value) <= loaded.second
        /\ visited.plain => again.value = first(bytes, loaded.second)

\* a hand-made buffer of canonical bytes, a list with an element and bytes
\* behind it, was decoded
C28_Witness ==
    /\ DecodedRaw /\ loaded.has_value /\ visited.plain
    /\ loaded.first.type = List /\ loaded.first.kids # <<>>
    /\ loaded.second < Size(bytes)
    /\ ToBytes(loaded.first).value = first(bytes, loaded.second)

(***************************************************************************)
(* C29  Encode only appends: after BuildMsgBytes(val, buf) on a buffer of  *)
(* p bytes the first p bytes are what they were, whether a value is        *)
(* returned or not; when a count is returned the buffer holds p + count    *)
(* bytes, and the bytes behind the first p are the bytes ToBytes(val)      *)
(* returns.                                                                *)
(***************************************************************************)
C29_OnlyAppends ==
    op = "built" =>
        /\ Size(buf) >= Size(init_buf)
        /\ first(buf, Size(init_buf)) = init_buf
        /\ built.has_value =>
            /\ Size(buf) = Size(init_buf) + built.value
            /\ ToBytes(val).has_value
            /\ subspan(buf, Size(init_buf)) = ToBytes(val).value

\* a list with an element was appended to a buffer that held bytes
C29_Witness ==
    /\ op = "built" /\ built.has_value
    /\ init_buf # <<>>
    /\ val.type = List /\ val.kids # <<>>
    /\ Size(buf) > Size(init_buf)

(***************************************************************************)
(* C30  FilterExceededLength(len) returns len when len is at most max_len  *)
(* (0xFFFFFF), and no value when len is above it.                          *)
(***************************************************************************)
C30_FilterExceededLength ==
    Queried("FilterExceededLength") =>
        query.ret = IF query.arg <= max_len THEN make_optional(query.arg) ELSE nullopt

====
